---------------------------- MODULE Spec2Model ----------------------------
(***************************************************************************)
(* A model of the beets RYM genres plugin:                                 *)
(*   src/beetsplug/rym_genre_hierarchy.py  (class RYMGenreHierarchy)       *)
(*   src/beetsplug/rym_genres.py           (class RYMGenresPlugin)         *)
(*                                                                         *)
(* Genre names are atomic strings.  A taxonomy node is a record with the   *)
(* keys of the JSON object it was read from; a JSON list is a sequence;    *)
(* a Python dict is a function whose DOMAIN is the set of its keys; a      *)
(* Python set is a set; a tuple is a sequence.                             *)
(***************************************************************************)
EXTENDS Integers, Sequences, FiniteSets, TLC

VARIABLES
    taxFile,          \* the taxonomy document on disk (genre_tree_file)
    exclFile,         \* the exclusion document on disk (excluded_genres_file)
    cacheFile,        \* the catalog cache on disk (cache_file)
    remote,           \* what a fetch of firebase_url delivers
    now,              \* time.time()
    config,           \* self.config
    rym_data,         \* self.rym_data: the catalog, or None
    genre_hierarchy,  \* self.genre_hierarchy: the RYMGenreHierarchy, or None
    logged_albums,    \* self.logged_albums
    library,          \* the albums of the library
    op,               \* the call in progress, with its arguments
    ret               \* what that call returned

vars == <<taxFile, exclFile, cacheFile, remote, now, config, rym_data,
          genre_hierarchy, logged_albums, library, op, ret>>

\* the files and the state of the plugin
disk == <<taxFile, exclFile, cacheFile>>
plugin == <<config, rym_data, genre_hierarchy, logged_albums>>

----------------------------------------------------------------------------
(* Bounds of the model *)

\* the most nodes a taxonomy forest holds
MaxNodes == 3

\* the longest list of genres handed to an operation
MaxGenres == 2

\* the most records a catalog holds
MaxCatalog == 2

\* the largest value configured for a maximum (max_genres, max_groupings, ...)
MaxLimit == 1

\* the latest time the clock reaches
MaxNow == 3

\* the most albums the library holds
MaxAlbums == 2

----------------------------------------------------------------------------
(* Small helpers *)

Range(s) == { s[i] : i \in DOMAIN s }

SeqsUpTo(S, n) == UNION { [1..k -> S] : k \in 0..n }

\* s[:n] of Python for n >= 0
Take(s, n) == SubSeq(s, 1, IF n < Len(s) THEN n ELSE Len(s))

----------------------------------------------------------------------------
(* Text.  An artist name or a title is a str of Python: here the sequence   *)
(* of its code points.  The operators below are those of Python on the      *)
(* repertoire Repertoire (printable ASCII, the fullwidth forms, the          *)
(* ideographic space, the Ethiopic wordspace, the combining acute accent    *)
(* and the letters precomposed with it), which lower(), NFKC and NFD map    *)
(* into itself.                                                             *)

\* unicodedata.normalize('NFC', base + U+0301) for the ASCII letters that
\* compose with the combining acute accent: base :> precomposed letter
AcuteOf ==
    65 :> 193 @@ 67 :> 262 @@ 69 :> 201 @@ 71 :> 500 @@ 73 :> 205 @@ 75 :> 7728 @@
    76 :> 313 @@ 77 :> 7742 @@ 78 :> 323 @@ 79 :> 211 @@ 80 :> 7764 @@ 82 :> 340 @@
    83 :> 346 @@ 85 :> 218 @@ 87 :> 7810 @@ 89 :> 221 @@ 90 :> 377 @@ 97 :> 225 @@
    99 :> 263 @@ 101 :> 233 @@ 103 :> 501 @@ 105 :> 237 @@ 107 :> 7729 @@ 108 :> 314 @@
    109 :> 7743 @@ 110 :> 324 @@ 111 :> 243 @@ 112 :> 7765 @@ 114 :> 341 @@ 115 :> 347 @@
    117 :> 250 @@ 119 :> 7811 @@ 121 :> 253 @@ 122 :> 378
CombiningAcute == 769
IdeographicSpace == 12288
EthiopicWordspace == 4961

AcuteBases == DOMAIN AcuteOf
Precomposed == { AcuteOf[b] : b \in AcuteBases }
BaseOf(c) == CHOOSE b \in AcuteBases : AcuteOf[b] = c

Fullwidth == 65281..65374

Repertoire ==
    (32..126) \cup Fullwidth \cup Precomposed
    \cup {CombiningAcute, IdeographicSpace, EthiopicWordspace}

\* str.isspace, and \s of re
IsSpace(c) == c \in {32, IdeographicSpace}

\* \d of re: the decimal digits, ASCII and fullwidth
IsDigit(c) == c \in (48..57) \cup (65296..65305)

\* \w of re: str.isalnum or the underscore
IsWord(c) ==
    \/ c \in (48..57) \cup (65..90) \cup (97..122) \cup {95}
    \/ c \in Precomposed
    \/ c \in (65296..65305) \cup (65313..65338) \cup (65345..65370)

\* str.lower of one code point
Lower(c) ==
    IF c \in 65..90 THEN c + 32
    ELSE IF c \in 65313..65338 THEN c + 32
    ELSE IF c \in Precomposed /\ BaseOf(c) \in 65..90 THEN AcuteOf[BaseOf(c) + 32]
    ELSE c

LowerStr(s) == [i \in DOMAIN s |-> Lower(s[i])]

\* the canonical decomposition of one code point
CanonDecomp(c) ==
    IF c \in Precomposed THEN <<BaseOf(c), CombiningAcute>> ELSE <<c>>

\* the compatibility decomposition of one code point
CompatDecomp(c) ==
    IF c \in Fullwidth THEN <<c - 65248>>
    ELSE IF c = IdeographicSpace THEN <<32>>
    ELSE CanonDecomp(c)

RECURSIVE NFDFrom(_, _, _)
\* the canonical decompositions of the characters lo..hi of s, one after
\* the other (joined by halves)
NFDFrom(s, lo, hi) ==
    IF hi < lo THEN <<>>
    ELSE IF lo = hi THEN CanonDecomp(s[lo])
    ELSE NFDFrom(s, lo, (lo + hi) \div 2) \o NFDFrom(s, (lo + hi) \div 2 + 1, hi)

\* unicodedata.normalize('NFD', s); the repertoire has one combining mark,
\* so the canonical reordering changes nothing
NFD(s) == NFDFrom(s, 1, Len(s))

RECURSIVE NFKDFrom(_, _, _)
\* the compatibility decompositions of the characters lo..hi of s, one
\* after the other (joined by halves)
NFKDFrom(s, lo, hi) ==
    IF hi < lo THEN <<>>
    ELSE IF lo = hi THEN CompatDecomp(s[lo])
    ELSE NFKDFrom(s, lo, (lo + hi) \div 2) \o NFKDFrom(s, (lo + hi) \div 2 + 1, hi)

NFKD(s) == NFKDFrom(s, 1, Len(s))

RECURSIVE ComposeFrom(_, _, _)
\* canonical composition of the characters lo..hi of the decomposed string
\* s: a combining acute composes with the starter right before it, and the
\* composed letter takes the place of the two; an accent after a composed
\* letter or after another accent stays (joined by halves)
ComposeFrom(s, lo, hi) ==
    IF hi < lo THEN <<>>
    ELSE IF lo = hi
    THEN IF s[lo] = CombiningAcute /\ lo > 1 /\ s[lo - 1] \in AcuteBases
         THEN <<>>
         ELSE IF /\ lo < Len(s)
                 /\ s[lo + 1] = CombiningAcute
                 /\ s[lo] \in AcuteBases
         THEN <<AcuteOf[s[lo]]>>
         ELSE <<s[lo]>>
    ELSE ComposeFrom(s, lo, (lo + hi) \div 2) \o ComposeFrom(s, (lo + hi) \div 2 + 1, hi)

\* the composition of a whole decomposed string
Compose(s) == ComposeFrom(s, 1, Len(s))

\* unicodedata.normalize('NFKC', s)
NFKC(s) == Compose(NFKD(s))

----------------------------------------------------------------------------
(* difflib.SequenceMatcher(None, a, b).ratio(), with the automatic junk    *)
(* heuristic that the default autojunk=True switches on.  A score is the    *)
(* fraction <<numerator, denominator>> of the float Python computes.        *)

\* the length of b from which __chain_b purges its popular elements
AutojunkLength == 200

\* bpopular of __chain_b: in a b of AutojunkLength elements or more, the
\* elements that occur more than len(b) // 100 + 1 times; they are deleted
\* from b2j, so the search for the longest block does not see them
Popular(b) ==
    IF Len(b) >= AutojunkLength
    THEN { c \in Range(b) :
             Cardinality({ j \in DOMAIN b : b[j] = c }) > (Len(b) \div 100) + 1 }
    ELSE {}

\* the length of the common run of a from i and b from j, within a[..ahi-1]
\* and b[..bhi-1], over the elements b2j still holds: the k that j2len
\* holds for the last pair of the run
MatchRun(a, b, popular, i, j, ahi, bhi) ==
    LET limit == IF ahi - i < bhi - j THEN ahi - i ELSE bhi - j
        Same(d) == a[i + d] = b[j + d] /\ b[j + d] \notin popular
    IN  CHOOSE k \in 0..limit :
            /\ k = limit \/ ~Same(k)
            /\ \A d \in 0..(k - 1) : Same(d)

\* the test k > bestsize: a block replaces the best one only when it is
\* strictly longer
Better(best, m) == IF m[3] > best[3] THEN m ELSE best

RECURSIVE LongestInRow(_, _, _, _, _, _, _, _)
\* the inner loop of find_longest_match for one i, over the j of
\* jlo..jhi-1 in ascending order (evaluated by halves, the first half
\* before the second)
LongestInRow(a, b, popular, i, jlo, jhi, ahi, bhi) ==
    IF jhi <= jlo THEN <<i, jlo, 0>>
    ELSE IF jhi = jlo + 1
    THEN <<i, jlo, MatchRun(a, b, popular, i, jlo, ahi, bhi)>>
    ELSE Better(LongestInRow(a, b, popular, i, jlo, (jlo + jhi) \div 2, ahi, bhi),
                LongestInRow(a, b, popular, i, (jlo + jhi) \div 2, jhi, ahi, bhi))

RECURSIVE LongestFrom(_, _, _, _, _, _, _, _)
\* the outer loop of find_longest_match, over the i of ilo..ihi-1 in
\* ascending order (evaluated by halves, the first half before the second)
LongestFrom(a, b, popular, ilo, ihi, ahi, blo, bhi) ==
    IF ihi <= ilo THEN <<ilo, blo, 0>>
    ELSE IF ihi = ilo + 1
    THEN LongestInRow(a, b, popular, ilo, blo, bhi, ahi, bhi)
    ELSE Better(LongestFrom(a, b, popular, ilo, (ilo + ihi) \div 2, ahi, blo, bhi),
                LongestFrom(a, b, popular, (ilo + ihi) \div 2, ihi, ahi, blo, bhi))

\* the two while loops after the search: the block grows to the left and
\* then to the right over equal elements, popular ones included (bjunk is
\* empty, isjunk being None, so the last two loops do nothing)
Extended(a, b, alo, ahi, blo, bhi, m) ==
    LET before == IF m[1] - alo < m[2] - blo THEN m[1] - alo ELSE m[2] - blo
        back == CHOOSE k \in 0..before :
                    /\ k = before \/ a[m[1] - k - 1] # b[m[2] - k - 1]
                    /\ \A d \in 1..k : a[m[1] - d] = b[m[2] - d]
        iend == m[1] + m[3]
        jend == m[2] + m[3]
        after == IF ahi - iend < bhi - jend THEN ahi - iend ELSE bhi - jend
        forth == CHOOSE k \in 0..after :
                    /\ k = after \/ a[iend + k] # b[jend + k]
                    /\ \A d \in 0..(k - 1) : a[iend + d] = b[jend + d]
    IN  <<m[1] - back, m[2] - back, m[3] + back + forth>>

\* find_longest_match(alo, ahi, blo, bhi): <<i, j, k>>, the longest block
\* of elements that are not popular, the one that starts earliest in a and,
\* of those, earliest in b (<<alo, blo, 0>> when there is none), extended on
\* both sides
find_longest_match(a, b, popular, alo, ahi, blo, bhi) ==
    Extended(a, b, alo, ahi, blo, bhi,
             Better(<<alo, blo, 0>>,
                    LongestFrom(a, b, popular, alo, ahi, ahi, blo, bhi)))

RECURSIVE MatchedSize(_, _, _, _, _, _, _)
RECURSIVE MatchedAround(_, _, _, _, _, _, _, _)
\* the size of the block m and of the blocks get_matching_blocks finds to
\* its left and to its right
MatchedAround(a, b, popular, alo, ahi, blo, bhi, m) ==
    IF m[3] = 0 THEN 0
    ELSE m[3]
         + (IF alo < m[1] /\ blo < m[2]
            THEN MatchedSize(a, b, popular, alo, m[1], blo, m[2]) ELSE 0)
         + (IF m[1] + m[3] < ahi /\ m[2] + m[3] < bhi
            THEN MatchedSize(a, b, popular, m[1] + m[3], ahi, m[2] + m[3], bhi)
            ELSE 0)

\* the total size of get_matching_blocks within a[alo..ahi-1], b[blo..bhi-1]
MatchedSize(a, b, popular, alo, ahi, blo, bhi) ==
    MatchedAround(a, b, popular, alo, ahi, blo, bhi,
                  find_longest_match(a, b, popular, alo, ahi, blo, bhi))

\* ratio(): 2.0 * matches / length, and 1.0 for two empty strings
ratio(a, b) ==
    IF Len(a) + Len(b) = 0 THEN <<1, 1>>
    ELSE <<2 * MatchedSize(a, b, Popular(b), 1, Len(a) + 1, 1, Len(b) + 1),
           Len(a) + Len(b)>>

\* a similarity that compares the strings as written
SimilarityCaseSensitive(a, b) == ratio(NFKC(a), NFKC(b))

\* similarity(a, b)
similarity(a, b) == ratio(NFKC(LowerStr(a)), NFKC(LowerStr(b)))

\* comparisons and arithmetic of scores
ScoreLess(x, y) == x[1] * y[2] < y[1] * x[2]
ScoreLeq(x, y) == x[1] * y[2] <= y[1] * x[2]
ScoreEq(x, y) == x[1] * y[2] = y[1] * x[2]
\* max(x, y) of Python: x unless y is greater
ScoreMax(x, y) == IF ScoreLess(x, y) THEN y ELSE x
Zero == <<0, 1>>

----------------------------------------------------------------------------
(* The floats of Python: IEEE 754 binary64 with round-to-nearest, ties to   *)
(* even.  A float that is not negative is 0.0 or 2^e * m / 2^52, with the   *)
(* significand m of 53 bits held as five digits of base 2^13, most          *)
(* significant first, the first digit being the leading 1.  The scores stay *)
(* far from the subnormals and from the overflow.                           *)

LimbBase == 2 ^ 13
HalfLimb == 2 ^ 12

\* 0.0, and the int 0 that best_score starts with
FloatZero == [zero |-> TRUE, e |-> 0, m |-> <<0, 0, 0, 0, 0>>]

RECURSIVE Normalised(_, _, _)
\* <<p', q', e>> with p/q = 2^e * p'/q' and 1 <= p'/q' < 2, for p, q > 0
Normalised(p, q, e) ==
    IF p < q THEN Normalised(2 * p, q, e - 1)
    ELSE IF p >= 2 * q THEN Normalised(p, 2 * q, e + 1)
    ELSE <<p, q, e>>

RECURSIVE FractionDigits(_, _, _)
\* the first n digits of r/q after the point, r < q, followed by the
\* remainder they leave
FractionDigits(r, q, n) ==
    IF n = 0 THEN <<r>>
    ELSE <<(r * LimbBase) \div q>> \o FractionDigits((r * LimbBase) % q, q, n - 1)

RECURSIVE Incremented(_, _)
\* the digits m plus one unit of the digit of position i, with the carries
\* (the first digit takes the last carry)
Incremented(m, i) ==
    IF i = 1 \/ m[i] + 1 < LimbBase THEN [m EXCEPT ![i] = @ + 1]
    ELSE Incremented([m EXCEPT ![i] = 0], i - 1)

\* the float nearest to 2^e * 1.d2d3... for the digits m = <<1, d2, d3, ...>>
\* (five at least), more telling that something non-zero follows the
\* digits: a tie goes to the even significand
Rounded(e, m, more) ==
    LET head == SubSeq(m, 1, 5)
        first == IF Len(m) > 5 THEN m[6] ELSE 0
        rest == more \/ \E i \in 7..Len(m) : m[i] # 0
        up == \/ first > HalfLimb
              \/ first = HalfLimb /\ (rest \/ head[5] % 2 = 1)
        inc == IF up THEN Incremented(head, 5) ELSE head
    IN  IF inc[1] = 2 THEN [zero |-> FALSE, e |-> e + 1, m |-> <<1, 0, 0, 0, 0>>]
        ELSE [zero |-> FALSE, e |-> e, m |-> inc]

\* the float of a quotient of two ints, p / q correctly rounded: what
\* 2.0 * matches / length gives, and what a literal such as 0.8 denotes
FloatOf(x) ==
    IF x[1] = 0 THEN FloatZero
    ELSE LET n == Normalised(x[1], x[2], 0)
             d == FractionDigits(n[1] - n[2], n[2], 5)
         IN  Rounded(n[3], <<1>> \o SubSeq(d, 1, 5), d[6] # 0)

RECURSIVE ShiftedBits(_, _, _, _)
\* the digits m from position i on moved right by k < 13 bits, carry being
\* the bits that left the digit before; one more digit takes the last ones
ShiftedBits(m, k, i, carry) ==
    IF i > Len(m) THEN <<carry * (2 ^ (13 - k))>>
    ELSE <<carry * (2 ^ (13 - k)) + (m[i] \div (2 ^ k))>>
         \o ShiftedBits(m, k, i + 1, m[i] % (2 ^ k))

\* the digits m moved right by d bits, none lost
Shifted(m, d) ==
    ShiftedBits([i \in 1..(d \div 13) |-> 0] \o m, d % 13, 1, 0)

RECURSIVE SumDigits(_, _, _)
\* <<carry>> \o the digits of a + b from position i on; a and b have the
\* same number of digits
SumDigits(a, b, i) ==
    IF i > Len(a) THEN <<0>>
    ELSE LET low == SumDigits(a, b, i + 1)
             s == a[i] + b[i] + low[1]
         IN  <<s \div LimbBase, s % LimbBase>> \o Tail(low)

\* x + y of floats
FloatAdd(x, y) ==
    IF x.zero THEN y
    ELSE IF y.zero THEN x
    ELSE LET big == IF x.e >= y.e THEN x ELSE y
             small == IF x.e >= y.e THEN y ELSE x
             b == Shifted(small.m, big.e - small.e)
             a == big.m \o [i \in 1..(Len(b) - 5) |-> 0]
             s == SumDigits(a, b, 2)
             top == a[1] + b[1] + s[1]
             sum == <<top>> \o Tail(s)
         IN  IF top >= 2 THEN Rounded(big.e + 1, Shifted(sum, 1), FALSE)
             ELSE Rounded(big.e, sum, FALSE)

\* x / 2 of a float: exact
FloatHalf(x) == IF x.zero THEN x ELSE [x EXCEPT !.e = @ - 1]

RECURSIVE DigitsLess(_, _, _)
DigitsLess(a, b, i) ==
    /\ i <= Len(a)
    /\ \/ a[i] < b[i]
       \/ a[i] = b[i] /\ DigitsLess(a, b, i + 1)

\* x < y, x <= y of floats
FloatLess(x, y) ==
    IF y.zero THEN FALSE
    ELSE IF x.zero THEN TRUE
    ELSE x.e < y.e \/ (x.e = y.e /\ DigitsLess(x.m, y.m, 1))
FloatLeq(x, y) == ~FloatLess(y, x)

\* (x + y) / 2 of two scores, each the float of its quotient
ScoreMean(x, y) == FloatHalf(FloatAdd(FloatOf(x), FloatOf(y)))

----------------------------------------------------------------------------
(* The regular expressions of _get_artist_variations and                    *)
(* _get_album_variations, each as the scan re.sub or re.search makes.       *)
(* Positions are 1-based.  The repertoire has no line break, so '.' and a   *)
(* negated class match the same characters.                                 *)

RECURSIVE SkipSpaces(_, _)
\* the position after the longest run of \s from i
SkipSpaces(s, i) ==
    IF i <= Len(s) /\ IsSpace(s[i]) THEN SkipSpaces(s, i + 1) ELSE i

RECURSIVE SkipDigits(_, _)
SkipDigits(s, i) ==
    IF i <= Len(s) /\ IsDigit(s[i]) THEN SkipDigits(s, i + 1) ELSE i

RECURSIVE IndexFrom(_, _, _)
\* the first position from i on that holds c; 0 when there is none
IndexFrom(s, i, c) ==
    IF i > Len(s) THEN 0
    ELSE IF s[i] = c THEN i ELSE IndexFrom(s, i + 1, c)

RECURSIVE StripLeft(_)
StripLeft(s) ==
    IF s # <<>> /\ IsSpace(s[1]) THEN StripLeft(Tail(s)) ELSE s
RECURSIVE StripRight(_)
StripRight(s) ==
    IF s # <<>> /\ IsSpace(s[Len(s)]) THEN StripRight(SubSeq(s, 1, Len(s) - 1)) ELSE s
\* str.strip()
Strip(s) == StripRight(StripLeft(s))

RECURSIVE SubGroups(_, _, _, _)
\* re.sub(r'\s*\[.*?\]\s*', '', s) from position p on, for the pair of
\* delimiters open, close: leading spaces, the opening delimiter, everything
\* up to the first closing one, trailing spaces
SubGroups(s, open, close, p) ==
    IF p > Len(s) THEN <<>>
    ELSE LET q == SkipSpaces(s, p)
             r == IF q <= Len(s) /\ s[q] = open THEN IndexFrom(s, q + 1, close) ELSE 0
         IN IF r # 0 THEN SubGroups(s, open, close, SkipSpaces(s, r + 1))
            ELSE <<s[p]>> \o SubGroups(s, open, close, p + 1)

\* re.search(r'\[(.*?)\]', s): whether it matches, and group(1)
FirstGroup(s, open, close) ==
    LET q == IndexFrom(s, 1, open)
        r == IF q # 0 THEN IndexFrom(s, q + 1, close) ELSE 0
    IN IF r # 0 THEN [found |-> TRUE, text |-> SubSeq(s, q + 1, r - 1)]
       ELSE [found |-> FALSE, text |-> <<>>]

\* re.sub of the Ethiopic wordspace (U+1361) by ':'
SubEthiopic(s) == [i \in DOMAIN s |-> IF s[i] = EthiopicWordspace THEN 58 ELSE s[i]]

RECURSIVE SubColon(_, _)
\* re.sub(r'\s*:\s*', ': ', s) from position p on
SubColon(s, p) ==
    IF p > Len(s) THEN <<>>
    ELSE LET q == SkipSpaces(s, p) IN
         IF q <= Len(s) /\ s[q] = 58
         THEN <<58, 32>> \o SubColon(s, SkipSpaces(s, q + 1))
         ELSE <<s[p]>> \o SubColon(s, p + 1)

RECURSIVE SubSpaces(_, _)
\* re.sub(r'\s+', ' ', s) from position p on
SubSpaces(s, p) ==
    IF p > Len(s) THEN <<>>
    ELSE IF IsSpace(s[p]) THEN <<32>> \o SubSpaces(s, SkipSpaces(s, p))
         ELSE <<s[p]>> \o SubSpaces(s, p + 1)

RECURSIVE SubVolume(_, _)
\* re.sub(r'\b\d+\s*:\s*', ': ', s) from position p on
SubVolume(s, p) ==
    IF p > Len(s) THEN <<>>
    ELSE LET q == SkipSpaces(s, SkipDigits(s, p)) IN
         IF /\ IsDigit(s[p])
            /\ (p = 1 \/ ~IsWord(s[p - 1]))
            /\ q <= Len(s)
            /\ s[q] = 58
         THEN <<58, 32>> \o SubVolume(s, SkipSpaces(s, q + 1))
         ELSE <<s[p]>> \o SubVolume(s, p + 1)

\* re.sub(r'[^\w\s]', ' ', s)
SubPunct(s) == [i \in DOMAIN s |-> IF IsWord(s[i]) \/ IsSpace(s[i]) THEN s[i] ELSE 32]

----------------------------------------------------------------------------
(* _get_artist_variations and _get_album_variations *)

\* x, and its NFKC form when that differs
WithNorm(x) == <<x>> \o (IF NFKC(x) # x THEN <<NFKC(x)>> ELSE <<>>)

\* a cleaned form is kept when it is not empty and differs from the name
CleanedPart(name, cleaned) ==
    IF cleaned # <<>> /\ cleaned # name THEN WithNorm(cleaned) ELSE <<>>

\* the content of the first group, kept when it is not empty once stripped
AltPart(m) ==
    IF m.found /\ Strip(m.text) # <<>> THEN WithNorm(Strip(m.text)) ELSE <<>>

\* a rewritten form is kept when it differs from the name
ChangedPart(name, changed) ==
    IF changed # name THEN WithNorm(changed) ELSE <<>>

\* the decomposed form, kept when it differs from the name and its NFKC form
NFDPart(name) ==
    IF NFD(name) # name /\ NFD(name) # NFKC(name) THEN <<NFD(name)>> ELSE <<>>

RECURSIVE DedupUnstripped(_, _, _)
\* a final loop that drops the candidates seen, and strips afterwards
DedupUnstripped(variations, k, result) ==
    IF k > Len(variations) THEN result
    ELSE IF Strip(variations[k]) # <<>>
            /\ \A j \in 1..(k - 1) : variations[j] # variations[k]
         THEN DedupUnstripped(variations, k + 1, Append(result, Strip(variations[k])))
         ELSE DedupUnstripped(variations, k + 1, result)

RECURSIVE DedupFrom(_, _, _)
\* the final loop: strip each, drop the empty ones and the ones seen
DedupFrom(variations, k, result) ==
    IF k > Len(variations) THEN result
    ELSE LET var_clean == Strip(variations[k]) IN
         IF var_clean # <<>> /\ var_clean \notin Range(result)
         THEN DedupFrom(variations, k + 1, Append(result, var_clean))
         ELSE DedupFrom(variations, k + 1, result)

\* the list variations of _get_artist_variations when the final loop starts
ArtistVariationsRaw(artist_name) ==
    <<artist_name>>
    \o (IF NFKC(artist_name) # artist_name THEN <<NFKC(artist_name)>> ELSE <<>>)
    \o CleanedPart(artist_name, Strip(SubGroups(artist_name, 91, 93, 1)))
    \o CleanedPart(artist_name, Strip(SubGroups(artist_name, 40, 41, 1)))
    \o AltPart(FirstGroup(artist_name, 91, 93))
    \o AltPart(FirstGroup(artist_name, 40, 41))
    \o NFDPart(artist_name)

_get_artist_variations(artist_name) ==
    DedupFrom(ArtistVariationsRaw(artist_name), 1, <<>>)

\* the list variations of _get_album_variations when the final loop starts
AlbumVariationsRaw(album_title) ==
    LET normalized_punct == Strip(SubSpaces(SubColon(SubEthiopic(album_title), 1), 1))
        volume_removed == SubVolume(album_title, 1)
        minimal == Strip(SubSpaces(SubPunct(album_title), 1))
    IN  <<album_title>>
        \o (IF NFKC(album_title) # album_title THEN <<NFKC(album_title)>> ELSE <<>>)
        \o CleanedPart(album_title, Strip(SubGroups(album_title, 40, 41, 1)))
        \o CleanedPart(album_title, Strip(SubGroups(album_title, 91, 93, 1)))
        \o AltPart(FirstGroup(album_title, 91, 93))
        \o ChangedPart(album_title, normalized_punct)
        \o ChangedPart(album_title, volume_removed)
        \o CleanedPart(album_title, minimal)
        \o NFDPart(album_title)

_get_album_variations(album_title) ==
    DedupFrom(AlbumVariationsRaw(album_title), 1, <<>>)

----------------------------------------------------------------------------
(* The inputs: genre names, taxonomy documents, exclusion documents *)

\* the names that occur as nodes of the taxonomies of the model
TreeNames == {"Ambient", "Black Ambient", "Electronic"}

\* the names that occur in genre lists; "Regional Music" is in no taxonomy
GenreUniverse == TreeNames \cup {"Regional Music"}

\* GenreUniverse in the order of Python's string comparison (by code point)
NamesInOrder == <<"Ambient", "Black Ambient", "Electronic", "Regional Music">>

\* a node whose JSON object has no "name" key
NamelessNode == [nm |-> "Ambient"]

RECURSIVE ForestsOfSize(_), TreesOfSize(_)
\* the ordered forests of exactly k nodes: a JSON list of node objects
ForestsOfSize(k) ==
    IF k = 0 THEN { <<>> }
    ELSE UNION { { <<t>> \o rest : t \in TreesOfSize(j), rest \in ForestsOfSize(k - j) }
                 : j \in 1..k }
\* the node objects whose subtree has exactly j nodes (a leaf has no
\* "children" key)
TreesOfSize(j) ==
    IF j = 1 THEN { [name |-> n] : n \in TreeNames } \cup { NamelessNode }
    ELSE { [name |-> n, children |-> c] : n \in TreeNames, c \in ForestsOfSize(j - 1) }

Forests == UNION { ForestsOfSize(k) : k \in 0..MaxNodes }

\* a file on disk: whether it exists, whether it can be created, whether its
\* text parses as a JSON object, and that object
AbsentFile == [exists |-> FALSE, writable |-> TRUE, valid |-> FALSE, doc |-> <<>>]
ReadOnlyAbsentFile == [exists |-> FALSE, writable |-> FALSE, valid |-> FALSE, doc |-> <<>>]
GarbageFile == [exists |-> TRUE, writable |-> TRUE, valid |-> FALSE, doc |-> <<>>]
FileOf(d) == [exists |-> TRUE, writable |-> TRUE, valid |-> TRUE, doc |-> d]

\* the chain Electronic > Ambient > Black Ambient
ChainForest ==
    <<[name |-> "Electronic",
       children |-> <<[name |-> "Ambient",
                       children |-> <<[name |-> "Black Ambient"]>>]>>]>>

TaxFiles ==
    { AbsentFile, GarbageFile, FileOf([description |-> "no hierarchy key"]) }
    \cup { FileOf([genreHierarchy |-> f]) : f \in Forests }

ExclFiles ==
    { AbsentFile, ReadOnlyAbsentFile, GarbageFile,
      FileOf([description |-> "no list key"]),
      FileOf([excluded_meta_genres |-> <<"Ambient">>]),
      FileOf([excluded_meta_genres |-> <<"Electronic", "Regional Music">>]) }

----------------------------------------------------------------------------
(* RYMGenreHierarchy *)

\* self.genre_hierarchy = None
None == [present |-> FALSE, genre_to_parents |-> <<>>, all_genres |-> {},
         excluded_genres |-> {}]

\* the document load_excluded_genres writes when there is none
default_excluded ==
    [excluded_meta_genres |-> <<"Regional Music">>,
     description |-> "Meta-genres that are too broad to be useful as tags. These will be excluded from hierarchical expansion."]

\* a load_excluded_genres that writes the default document whenever it can
ExclFileRewritten(f) ==
    IF f.writable THEN FileOf(default_excluded) ELSE f

\* the exclusion file after load_excluded_genres: created with the default
\* document when it did not exist and can be written
ExclFileAfterLoad(f) ==
    IF ~f.exists /\ f.writable THEN FileOf(default_excluded) ELSE f

\* self.excluded_genres after load_excluded_genres; any failure to read
\* gives the empty set
load_excluded_genres(f) ==
    LET g == ExclFileAfterLoad(f) IN
    IF ~g.exists \/ ~g.valid THEN {}
    ELSE IF "excluded_meta_genres" \in DOMAIN g.doc
         THEN Range(g.doc.excluded_meta_genres)
         ELSE {}

\* the ancestor paths _parse_tree stores for a node reached by parent_path:
\* tuple(parent_path[:i+1]) for i in range(len(parent_path))
AncestorPathsImmediate(parent_path) ==
    IF parent_path = <<>> THEN {} ELSE { <<parent_path[Len(parent_path)]>> }
AncestorPaths(parent_path) ==
    { SubSeq(parent_path, 1, i + 1) : i \in 0..(Len(parent_path) - 1) }

\* one node registered: all_genres.add, the setdefault of genre_to_parents
\* and the adds of the ancestor paths
RegisterNodeOverwrite(idx, genre_name, parent_path) ==
    [idx EXCEPT
       !.all_genres = @ \cup {genre_name},
       !.genre_to_parents =
           [g \in DOMAIN @ \cup {genre_name} |->
               IF g = genre_name THEN AncestorPaths(parent_path) ELSE @[g]]]
RegisterNodeUnlisted(idx, genre_name, parent_path) ==
    [idx EXCEPT
       !.genre_to_parents =
           [g \in DOMAIN @ \cup {genre_name} |->
               IF g = genre_name
               THEN (IF g \in DOMAIN @ THEN @[g] ELSE {}) \cup AncestorPaths(parent_path)
               ELSE @[g]]]
RegisterNode(idx, genre_name, parent_path) ==
    LET old == IF genre_name \in DOMAIN idx.genre_to_parents
               THEN idx.genre_to_parents[genre_name] ELSE {}
    IN [idx EXCEPT
          !.all_genres = @ \cup {genre_name},
          !.genre_to_parents =
              [g \in DOMAIN @ \cup {genre_name} |->
                  IF g = genre_name THEN old \cup AncestorPaths(parent_path)
                  ELSE @[g]]]

RECURSIVE ParseNodes(_, _, _, _)
\* _parse_tree(nodes, parent_path) on the index idx, from the i-th node on.
\* node['name'] of a node without that key raises KeyError, which leaves
\* every level of the recursion: idx.raised, and what was registered stays.
ParseNodes(nodes, i, parent_path, idx) ==
    IF idx.raised \/ i > Len(nodes) THEN idx
    ELSE LET node == nodes[i] IN
         IF "name" \notin DOMAIN node THEN [idx EXCEPT !.raised = TRUE]
         ELSE LET genre_name == node.name
                  current_path == Append(parent_path, genre_name)
                  registered == RegisterNode(idx, genre_name, parent_path)
                  after == IF "children" \in DOMAIN node /\ node.children # <<>>
                           THEN ParseNodes(node.children, 1, current_path, registered)
                           ELSE registered
              IN ParseNodes(nodes, i + 1, parent_path, after)

_parse_tree(nodes, parent_path, idx) == ParseNodes(nodes, 1, parent_path, idx)

EmptyIndex == [genre_to_parents |-> <<>>, all_genres |-> {}, raised |-> FALSE]

\* load_hierarchy: the index after it.  A missing file returns early; an
\* unreadable document or a missing 'genreHierarchy' key raises before
\* anything is parsed; an exception inside _parse_tree is caught the same
\* way, with the index as _parse_tree left it.
load_hierarchy(f) ==
    IF ~f.exists THEN EmptyIndex
    ELSE IF ~f.valid \/ "genreHierarchy" \notin DOMAIN f.doc
         THEN [EmptyIndex EXCEPT !.raised = TRUE]
         ELSE _parse_tree(f.doc.genreHierarchy, <<>>, EmptyIndex)

\* RYMGenreHierarchy(genre_tree_file, excluded_genres_file): __init__
RYMGenreHierarchy(tax, excl) ==
    LET idx == load_hierarchy(tax) IN
    [present |-> TRUE,
     genre_to_parents |-> idx.genre_to_parents,
     all_genres |-> idx.all_genres,
     excluded_genres |-> load_excluded_genres(excl)]

\* filter_valid_genres(genres): (valid, invalid)
filter_valid_genres(h, genres) ==
    <<SelectSeq(genres, LAMBDA g : g \in h.all_genres),
      SelectSeq(genres, LAMBDA g : g \notin h.all_genres)>>

\* filter_excluded_genres(genres): (included, excluded)
filter_excluded_genres(h, genres) ==
    <<SelectSeq(genres, LAMBDA g : g \notin h.excluded_genres),
      SelectSeq(genres, LAMBDA g : g \in h.excluded_genres)>>

get_all_parent_genres(h, genre_name) ==
    IF genre_name \notin DOMAIN h.genre_to_parents THEN {}
    ELSE UNION { Range(path) : path \in h.genre_to_parents[genre_name] }

\* the body of the loop of expand_genres_hierarchically for one genre
ExpandOneMutant(h, expanded, genre) ==
    IF genre \in h.all_genres
    THEN expanded \cup (IF genre \notin h.excluded_genres THEN {genre} ELSE {})
                  \cup get_all_parent_genres(h, genre)
    ELSE expanded \cup (IF genre \notin h.excluded_genres THEN {genre} ELSE {})
ExpandOne(h, expanded, genre) ==
    IF genre \in h.all_genres
    THEN expanded \cup (IF genre \notin h.excluded_genres THEN {genre} ELSE {})
                  \cup { parent \in get_all_parent_genres(h, genre) :
                           parent \notin h.excluded_genres }
    ELSE expanded \cup (IF genre \notin h.excluded_genres THEN {genre} ELSE {})

RECURSIVE ExpandFrom(_, _, _, _)
ExpandFrom(h, genres, i, expanded) ==
    IF i > Len(genres) THEN expanded
    ELSE ExpandFrom(h, genres, i + 1, ExpandOne(h, expanded, genres[i]))

expand_genres_hierarchically(h, genres) == ExpandFrom(h, genres, 1, {})

\* get_genre_paths(genre_name): the lists it returns, one for each stored
\* ancestor path; their order is that of the iteration of a set
get_genre_paths(h, genre_name) ==
    IF genre_name \notin DOMAIN h.genre_to_parents THEN {}
    ELSE { Append(path_tuple, genre_name) : path_tuple \in h.genre_to_parents[genre_name] }

----------------------------------------------------------------------------
(* RYMGenresPlugin: configuration and the catalog *)

\* self.config.add({...}): the defaults.  A threshold is a fraction.
DefaultConfig ==
    [firebase_url |-> "",
     similarity_threshold |-> <<4, 5>>,
     max_genres |-> 10,
     max_secondary_genres |-> 20,
     max_descriptors |-> 60,
     max_groupings |-> 30,
     auto_tag |-> TRUE,
     use_hierarchy |-> TRUE,
     cache_duration |-> 3600,
     require_rym_match |-> FALSE,
     log_missing_matches |-> TRUE,
     flexible_artist_matching |-> TRUE,
     title_match_threshold |-> <<19, 20>>]

\* A JSON value in a place where the code expects a mapping: whether it is
\* one (isinstance(v, dict)) and, when it is, the sequence of its values in
\* the order of the document.
MappingOf(values) == [isdict |-> TRUE, values |-> values]
NotAMapping == [isdict |-> FALSE, values |-> <<>>]

\* A JSON value in the place of a record that is not a mapping, and one in
\* the place of a string that is not a str (a number other than 0): no
\* mapping of the model has the key "json" and no str holds a negative code
\* point.
NotARecord == [json |-> "number"]
NotAString == <<-1>>
IsRecord(v) == "json" \notin DOMAIN v
IsStr(v) == \A i \in DOMAIN v : v[i] >= 0

\* self.rym_data = None.  A catalog is the sequence of the values of the
\* outer mapping (one artist_data per artist key, in the order of the
\* document); an artist_data is a mapping of release_data or another JSON
\* value; a release_data is a record with the keys of its object.
RymNone == [none |-> TRUE, data |-> <<>>]
RymOf(catalog) == [none |-> FALSE, data |-> catalog]

\* _load_from_cache: whether it returns True.  The document has to parse,
\* cached_data.get('timestamp', 0) has to be younger than cache_duration,
\* cached_data['data'] has to exist and .values() has to work on it.
CacheUsableAtLimit(cfg, cache, t) ==
    /\ cache.exists
    /\ cache.valid
    /\ t - (IF "timestamp" \in DOMAIN cache.doc THEN cache.doc.timestamp ELSE 0)
          <= cfg.cache_duration
    /\ "data" \in DOMAIN cache.doc
    /\ cache.doc.data.isdict
CacheUsable(cfg, cache, t) ==
    /\ cache.exists
    /\ cache.valid
    /\ t - (IF "timestamp" \in DOMAIN cache.doc THEN cache.doc.timestamp ELSE 0)
          < cfg.cache_duration
    /\ "data" \in DOMAIN cache.doc
    /\ cache.doc.data.isdict

\* _save_to_cache: the cache document after it; a failure to write is
\* logged and leaves the file as it was
SavedCache(cache, catalog, t) ==
    IF cache.writable
    THEN FileOf([timestamp |-> t, data |-> MappingOf(catalog)])
    ELSE cache

\* a load that caches whatever it ends with, the empty catalog of a failure
\* included
LoadedAfreshSavingFailures(cfg, cache, src, t) ==
    IF CacheUsable(cfg, cache, t)
    THEN [rym_data |-> RymOf(cache.doc.data.values), cacheFile |-> cache,
          via |-> "cache"]
    ELSE IF cfg.firebase_url = ""
         THEN [rym_data |-> RymOf(<<>>), cacheFile |-> cache, via |-> "no url"]
    ELSE IF ~src.ok \/ ~src.isdict
         THEN [rym_data |-> RymOf(<<>>),
               cacheFile |-> SavedCache(cache, <<>>, t), via |-> "failed"]
    ELSE [rym_data |-> RymOf(src.data),
          cacheFile |-> SavedCache(cache, src.data, t), via |-> "fetched"]

\* _load_rym_data: self.rym_data and the cache file after it, and the way
\* the catalog came (via).  src is the remote document: whether the fetch
\* and the JSON parse succeed, whether the document is a mapping, and its
\* catalog.
LoadedAfresh(cfg, cache, src, t) ==
    IF CacheUsable(cfg, cache, t)
    THEN [rym_data |-> RymOf(cache.doc.data.values), cacheFile |-> cache,
          via |-> "cache"]
    ELSE IF cfg.firebase_url = ""
         THEN [rym_data |-> RymOf(<<>>), cacheFile |-> cache, via |-> "no url"]
    ELSE IF ~src.ok \/ ~src.isdict
         THEN [rym_data |-> RymOf(<<>>), cacheFile |-> cache, via |-> "failed"]
    ELSE [rym_data |-> RymOf(src.data),
          cacheFile |-> SavedCache(cache, src.data, t), via |-> "fetched"]

LoadRymDataEveryTime(cfg, rym, cache, src, t) == LoadedAfresh(cfg, cache, src, t)

_load_rym_data(cfg, rym, cache, src, t) ==
    IF ~rym.none THEN [rym_data |-> rym, cacheFile |-> cache, via |-> "memory"]
    ELSE LoadedAfresh(cfg, cache, src, t)

----------------------------------------------------------------------------
(* RYMGenresPlugin._find_rym_release *)

\* release_data.get(key, '')
GetText(release_data, key) ==
    IF key \in DOMAIN release_data THEN release_data[key] ELSE <<>>

\* release_data.get(key, [])
GetList(release_data, key) ==
    IF key \in DOMAIN release_data THEN release_data[key] ELSE <<>>

RECURSIVE BestAgainst(_, _, _, _)
\* the inner loop: best = max(best, similarity(x.lower(), y.lower())) for
\* the names y of ys from the j-th on
BestAgainst(x, ys, j, best) ==
    IF j > Len(ys) THEN best
    ELSE BestAgainst(x, ys, j + 1,
                     ScoreMax(best, similarity(LowerStr(x), LowerStr(ys[j]))))

RECURSIVE BestOverFrom(_, _, _, _)
\* the outer loop, over the names of xs from the i-th on; the maximum the
\* inner loop reaches for xs[i] joins the running maximum
BestOverFrom(xs, ys, i, best) ==
    IF i > Len(xs) THEN best
    ELSE BestOverFrom(xs, ys, i + 1,
                      ScoreMax(best, BestAgainst(xs[i], ys, 1, Zero)))

\* the best similarity of a name of xs, lowered, with a name of ys, lowered
BestOverPairs(xs, ys) == BestOverFrom(xs, ys, 1, Zero)

\* best_artist_score: the query artist, lowered, against every variation of
\* the record's artist
BestArtistScore(artist, rym_artist_raw) ==
    BestOverPairs(<<artist>>, _get_artist_variations(rym_artist_raw))

\* best_title_score: every variation of the query title against every
\* variation of the record's title
BestTitleScore(album_title, rym_title_raw) ==
    BestOverPairs(_get_album_variations(album_title),
                  _get_album_variations(rym_title_raw))

\* whether the loop skips the record before scoring it: it is not a
\* mapping, or it has no artist name or no title
Skipped(release_data) ==
    \/ ~IsRecord(release_data)
    \/ GetText(release_data, "artistName") = <<>>
    \/ GetText(release_data, "releaseTitle") = <<>>

\* whether _get_artist_variations or _get_album_variations raises for the
\* record: unicodedata.normalize takes a str
VariationsRaise(release_data) ==
    \/ ~IsStr(release_data.artistName)
    \/ ~IsStr(release_data.releaseTitle)

\* combined_score = (best_artist_score + best_title_score) / 2
CombinedScores(a, t) == [artist |-> a, title |-> t, combined |-> ScoreMean(a, t)]

\* the scores of one record that is not skipped
ReleaseScores(artist, album_title, release_data) ==
    CombinedScores(BestArtistScore(artist, release_data.artistName),
                   BestTitleScore(album_title, release_data.releaseTitle))

\* the two branches that adopt a record as best_match
PrimaryAcceptAny(cfg, sc, best_score) ==
    FloatLess(best_score, sc.combined)
PrimaryAcceptLast(cfg, sc, best_score) ==
    /\ FloatLeq(best_score, sc.combined)
    /\ FloatLeq(FloatOf(cfg.similarity_threshold), sc.combined)
FlexibleAcceptAbove(cfg, sc, best_score) ==
    /\ cfg.flexible_artist_matching
    /\ ScoreLeq(cfg.title_match_threshold, sc.title)
    /\ ScoreLess(sc.artist, cfg.similarity_threshold)
    /\ FloatLess(best_score, sc.combined)
    /\ FloatLeq(FloatOf(cfg.similarity_threshold), sc.combined)
\* combined_score > best_score and combined_score >= threshold
PrimaryAccept(cfg, sc, best_score) ==
    /\ FloatLess(best_score, sc.combined)
    /\ FloatLeq(FloatOf(cfg.similarity_threshold), sc.combined)
\* the elif branch with the test inside it
FlexibleAccept(cfg, sc, best_score) ==
    /\ ~PrimaryAccept(cfg, sc, best_score)
    /\ cfg.flexible_artist_matching
    /\ ScoreLeq(cfg.title_match_threshold, sc.title)
    /\ ScoreLess(sc.artist, cfg.similarity_threshold)
    /\ FloatLess(best_score, sc.combined)

\* the values of the two-level mapping in the order the loops visit them;
\* an artist_data that is not a mapping is passed over
RECURSIVE Flatten(_, _)
Flatten(catalog, i) ==
    IF i > Len(catalog) THEN <<>>
    ELSE (IF catalog[i].isdict THEN catalog[i].values ELSE <<>>)
         \o Flatten(catalog, i + 1)

NoMatch == [none |-> TRUE, release_data |-> <<>>]

\* one scored record: it becomes best_match when one of the two branches
\* adopts it
ScoredRelease(cfg, release_data, k, st, sc) ==
    LET adopt == \/ PrimaryAccept(cfg, sc, st.best_score)
                 \/ FlexibleAccept(cfg, sc, st.best_score)
    IN [best_match |-> IF adopt
                       THEN [none |-> FALSE, release_data |-> release_data]
                       ELSE st.best_match,
        best_score |-> IF adopt THEN sc.combined ELSE st.best_score,
        best_at |-> IF adopt THEN k ELSE st.best_at,
        raised |-> FALSE,
        scanned |-> Append(st.scanned,
                           [skipped |-> FALSE, artist |-> sc.artist,
                            title |-> sc.title, combined |-> sc.combined])]

\* the body of the loop for the record of position k
ScanRelease(cfg, artist, album_title, release_data, k, st) ==
    IF Skipped(release_data)
    THEN [st EXCEPT !.scanned = Append(@, [skipped |-> TRUE])]
    ELSE IF VariationsRaise(release_data)
    THEN [st EXCEPT !.raised = TRUE]
    ELSE ScoredRelease(cfg, release_data, k, st,
                       ReleaseScores(artist, album_title, release_data))

RECURSIVE ScanReleases(_, _, _, _, _, _)
\* the loop over the records: st holds best_match, best_score and, for the
\* record of each position, the scores computed for it (none for a skipped
\* record).  A TypeError of the variations leaves the loop and the method.
ScanReleases(cfg, artist, album_title, releases, k, st) ==
    IF st.raised \/ k > Len(releases) THEN st
    ELSE ScanReleases(cfg, artist, album_title, releases, k + 1,
                      ScanRelease(cfg, artist, album_title, releases[k], k, st))

\* _find_rym_release on the loaded catalog rym: what it returns
\* (best_match) or that it raised, with best_score, the position of the
\* record and the scores of the scan
_find_rym_release(cfg, rym, artist, album_title) ==
    LET start == [best_match |-> NoMatch, best_score |-> FloatZero, best_at |-> 0,
                  raised |-> FALSE, scanned |-> <<>>]
    IN IF rym.data = <<>> THEN start
       ELSE ScanReleases(cfg, artist, album_title, Flatten(rym.data, 1), 1, start)

----------------------------------------------------------------------------
(* RYMGenresPlugin: the grouping, _get_parent_genres *)

\* sorted(list(S)) for a set S of genre names
SortedNames(S) == SelectSeq(NamesInOrder, LAMBDA n : n \in S)

\* _load_genre_hierarchy: self.genre_hierarchy and the exclusion file after
\* it.  RYMGenreHierarchy(...) catches whatever its two loads raise, so the
\* except branch is not taken.
LoadGenreHierarchyAgain(cfg, h, tax, excl) ==
    IF ~cfg.use_hierarchy
    THEN [genre_hierarchy |-> h, exclFile |-> excl]
    ELSE [genre_hierarchy |-> RYMGenreHierarchy(tax, excl),
          exclFile |-> ExclFileAfterLoad(excl)]
_load_genre_hierarchy(cfg, h, tax, excl) ==
    IF h.present \/ ~cfg.use_hierarchy
    THEN [genre_hierarchy |-> h, exclFile |-> excl]
    ELSE [genre_hierarchy |-> RYMGenreHierarchy(tax, excl),
          exclFile |-> ExclFileAfterLoad(excl)]

\* the body of the loop of _get_parent_genres for one genre
CollectParents(h, st, genre) ==
    IF get_all_parent_genres(h, genre) # {}
    THEN [st EXCEPT !.all_parents = @ \cup get_all_parent_genres(h, genre)]
    ELSE [st EXCEPT !.top_level_genres = @ \cup {genre}]

RECURSIVE CollectFrom(_, _, _, _)
\* the loop of _get_parent_genres from the i-th genre on
CollectFrom(h, genres, i, st) ==
    IF i > Len(genres) THEN st
    ELSE CollectFrom(h, genres, i + 1, CollectParents(h, st, genres[i]))

\* all_parents = all_parents - set(genres)
KeepOriginals(all_parents, genres) == all_parents
WithoutOriginals(all_parents, genres) == all_parents \ Range(genres)

\* parent_list[:max_groupings] if max_groupings > 0 else parent_list
LimitedOneMore(parent_list, max_groupings) ==
    IF max_groupings > 0 THEN Take(parent_list, max_groupings + 1) ELSE parent_list
Limited(parent_list, max_groupings) ==
    IF max_groupings > 0 THEN Take(parent_list, max_groupings) ELSE parent_list

\* what follows the loop: the original genres leave the parents, the
\* top-level genres join them, the excluded ones leave, and the rest is
\* sorted and limited
ParentList(cfg, h, genres, st) ==
    Limited(SortedNames((WithoutOriginals(st.all_parents, genres)
                            \cup st.top_level_genres)
                        \ h.excluded_genres),
            cfg.max_groupings)

\* _get_parent_genres once _load_genre_hierarchy has run
GroupingsWith(cfg, genres, loaded) ==
    [groupings |->
         IF ~loaded.genre_hierarchy.present THEN <<>>
         ELSE ParentList(cfg, loaded.genre_hierarchy, genres,
                         CollectFrom(loaded.genre_hierarchy, genres, 1,
                                     [all_parents |-> {}, top_level_genres |-> {}])),
     genre_hierarchy |-> loaded.genre_hierarchy,
     exclFile |-> loaded.exclFile]

\* _get_parent_genres(genres): the list it returns, with self.genre_hierarchy
\* and the exclusion file after it
_get_parent_genres(cfg, h, tax, excl, genres) ==
    IF ~cfg.use_hierarchy \/ genres = <<>>
    THEN [groupings |-> <<>>, genre_hierarchy |-> h, exclFile |-> excl]
    ELSE GroupingsWith(cfg, genres, _load_genre_hierarchy(cfg, h, tax, excl))

----------------------------------------------------------------------------
(* RYMGenresPlugin: the tags.  A tag value is the string '; '.join makes,   *)
(* as its characters; the empty string is <<>>.                             *)

\* ";" and "; "
Semicolon == 59
Separator == <<Semicolon, 32>>

TagFields == {"genre", "secondary_genre", "descriptor", "grouping"}

\* the characters of the names that the records and the taxonomy hold
Spelling(name) ==
    CASE name = "Ambient" -> <<65, 109, 98, 105, 101, 110, 116>>
      [] name = "Black Ambient" -> <<66, 108, 97, 99, 107, 32, 65, 109, 98, 105, 101, 110, 116>>
      [] name = "Electronic" -> <<69, 108, 101, 99, 116, 114, 111, 110, 105, 99>>
      [] name = "Regional Music" -> <<82, 101, 103, 105, 111, 110, 97, 108, 32, 77, 117, 115, 105, 99>>
      [] name = "AC;DC" -> <<65, 67, 59, 68, 67>>
      [] name = " Dub" -> <<32, 68, 117, 98>>
      [] name = "Noise" -> <<78, 111, 105, 115, 101>>
      [] name = "Glitch" -> <<71, 108, 105, 116, 99, 104>>
      [] name = "dark" -> <<100, 97, 114, 107>>
      [] name = "cold" -> <<99, 111, 108, 100>>
      [] name = "nocturnal" -> <<110, 111, 99, 116, 117, 114, 110, 97, 108>>
      [] name = "sparse" -> <<115, 112, 97, 114, 115, 101>>

RECURSIVE Join(_)
\* '; '.join(names)
Join(names) ==
    IF names = <<>> THEN <<>>
    ELSE IF Len(names) = 1 THEN Spelling(names[1])
    ELSE Spelling(names[1]) \o Separator \o Join(Tail(names))

RECURSIVE SplitParts(_, _, _)
\* value.split(';') from position i on, part being the characters read
\* since the last ';'
SplitParts(value, i, part) ==
    IF i > Len(value) THEN <<part>>
    ELSE IF value[i] = Semicolon THEN <<part>> \o SplitParts(value, i + 1, <<>>)
    ELSE SplitParts(value, i + 1, Append(part, value[i]))

\* [v.strip() for v in value.split(';') if v.strip()], and [value.strip()]
\* for a value without ';'
SplitValue(value) ==
    IF \E i \in DOMAIN value : value[i] = Semicolon
    THEN LET parts == SplitParts(value, 1, <<>>)
         IN  SelectSeq([i \in DOMAIN parts |-> Strip(parts[i])], LAMBDA v : v # <<>>)
    ELSE <<Strip(value)>>

\* one of the fields genre, secondary_genre, descriptor: assigned when the
\* list of the record is not empty and the maximum is positive
FieldValueFromZero(old, entries, maximum) ==
    IF entries # <<>> /\ maximum >= 0 THEN Join(Take(entries, maximum)) ELSE old
FieldValue(old, entries, maximum) ==
    IF entries # <<>> /\ maximum > 0 THEN Join(Take(entries, maximum)) ELSE old

\* the four fields after the assignments of _apply_rym_tags and of
\* _enhance_album_info, grouped being what _get_parent_genres gave
ResolvedTags(cfg, release_data, tags, grouped) ==
    [tags |->
        [genre |-> FieldValue(tags.genre, GetList(release_data, "genres"),
                              cfg.max_genres),
         secondary_genre |-> FieldValue(tags.secondary_genre,
                                        GetList(release_data, "secondaryGenres"),
                                        cfg.max_secondary_genres),
         descriptor |-> FieldValue(tags.descriptor,
                                   GetList(release_data, "descriptors"),
                                   cfg.max_descriptors),
         grouping |-> IF grouped.groupings # <<>> THEN Join(grouped.groupings)
                      ELSE tags.grouping],
     genre_hierarchy |-> grouped.genre_hierarchy,
     exclFile |-> grouped.exclFile,
     raised |-> FALSE]

\* _find_matching_release(album) on the loaded catalog rym
_find_matching_release(cfg, rym, album) ==
    _find_rym_release(cfg, rym,
                      IF album.albumartist_credit # <<>>
                      THEN album.albumartist_credit ELSE album.albumartist,
                      album.album)

\* _apply_rym_tags(album), found being what _find_matching_release gave: the
\* tags of the album, self.genre_hierarchy and the exclusion file after it;
\* an exception of the matcher passes through it
_apply_rym_tags(cfg, h, tax, excl, tags, found) ==
    IF found.raised \/ found.best_match.none
    THEN [tags |-> tags, genre_hierarchy |-> h, exclFile |-> excl,
          raised |-> found.raised]
    ELSE ResolvedTags(cfg, found.best_match.release_data, tags,
                      _get_parent_genres(cfg, h, tax, excl,
                          GetList(found.best_match.release_data, "genres")))

\* _enhance_album_info(album_info, release_data) for a matched record
_enhance_album_info(cfg, h, tax, excl, tags, release_data) ==
    ResolvedTags(cfg, release_data, tags,
                 _get_parent_genres(cfg, h, tax, excl,
                                    GetList(release_data, "genres")))

\* _apply_rym_tags_to_item(item, album): the tags of the item after it
_apply_rym_tags_to_item(item_tags, album_tags) ==
    [f \in TagFields |-> IF album_tags[f] # <<>> THEN album_tags[f] ELSE item_tags[f]]

\* item.try_write(): the fields of the item go to the file as strings, or,
\* when the file cannot be written (item.writable is FALSE), the error is
\* logged, the file stays as it was and False is returned, which the
\* callers ignore
try_write(item) ==
    IF item.writable
    THEN [item EXCEPT !.file =
             [f \in TagFields |-> [array |-> FALSE, value |-> item.tags[f]]]]
    ELSE item

\* _write_item_with_flac_arrays(item); item.flac says that the path ends in
\* .flac and that mutagen could be imported, flac_raises that FLAC(path) or
\* flac_file.save() raises for the file, as save() does for any file that
\* cannot be written: the handler falls back to item.try_write(), whose
\* result it does not look at
_write_item_with_flac_arrays(item, flac_raises) ==
    IF /\ item.flac
       /\ ~flac_raises
       /\ item.writable
       /\ \E f \in TagFields : item.tags[f] # <<>>
    THEN [item EXCEPT !.file =
             [f \in TagFields |->
                 IF item.tags[f] # <<>>
                 THEN [array |-> TRUE, value |-> SplitValue(item.tags[f])]
                 ELSE @[f]]]
    ELSE try_write(item)

\* the loop of album_imported for one item: the tags copied, item.store(),
\* the file written
ImportedItem(item, album_tags, flac_raises) ==
    _write_item_with_flac_arrays(
        [item EXCEPT !.tags = _apply_rym_tags_to_item(item.tags, album_tags),
                     !.db = _apply_rym_tags_to_item(item.tags, album_tags)],
        flac_raises)

\* album_imported for an album task, applied being what _apply_rym_tags
\* gave: task.album.store() and the loop over its items, neither of them
\* reached when _apply_rym_tags raised; flac_raises says for each item
\* whether the FLAC write of its file raises
ImportedAlbum(album, applied, flac_raises) ==
    [album |-> IF applied.raised THEN album
               ELSE [album EXCEPT !.tags = applied.tags,
                                  !.db = applied.tags,
                                  !.items = [i \in DOMAIN @ |->
                                                ImportedItem(@[i], applied.tags,
                                                             flac_raises[i])]],
     genre_hierarchy |-> applied.genre_hierarchy,
     exclFile |-> applied.exclFile,
     raised |-> applied.raised]

\* f"{album_info.artist} - {album_info.album}"
AlbumKey(album_info) == album_info.artist \o <<32, 45, 32>> \o album_info.album

\* album_distance with auto_tag on, found being what _find_rym_release gave:
\* album_info, self.logged_albums, self.genre_hierarchy and the exclusion
\* file after it
EnhancedInfo(album_info, enhanced, logged) ==
    [album_info |-> [album_info EXCEPT !.tags = enhanced.tags],
     logged_albums |-> logged \cup {AlbumKey(album_info)},
     genre_hierarchy |-> enhanced.genre_hierarchy,
     exclFile |-> enhanced.exclFile,
     raised |-> FALSE]
\* on_import_task_created (the import_task_created listener): the tasks the
\* import continues with.  found is the result of _find_rym_release for the
\* names of the first item of the task, consulted only for an album task
\* with items when require_rym_match is set; an exception of the matcher is
\* not caught.
on_import_task_created(cfg, task, found) ==
    IF ~cfg.require_rym_match
    THEN [raised |-> FALSE, tasks |-> <<task>>]
    ELSE IF task.is_album /\ task.items # <<>>
         THEN IF found.raised
              THEN [raised |-> TRUE, tasks |-> <<>>]
              ELSE IF found.best_match.none
                   THEN [raised |-> FALSE, tasks |-> <<>>]
                   ELSE [raised |-> FALSE, tasks |-> <<task>>]
         ELSE [raised |-> FALSE, tasks |-> <<task>>]

album_distance(cfg, h, tax, excl, logged, album_info, found) ==
    IF found.raised \/ found.best_match.none
    THEN [album_info |-> album_info, logged_albums |-> logged,
          genre_hierarchy |-> h, exclFile |-> excl, raised |-> found.raised]
    ELSE EnhancedInfo(album_info,
                      _enhance_album_info(cfg, h, tax, excl, album_info.tags,
                                          found.best_match.release_data),
                      logged)

----------------------------------------------------------------------------
(* Calls.  The plugin is single-threaded: one call at a time.  A call       *)
(* leaves its name and arguments in op and its result in ret; Return hands  *)
(* the result to the caller.  The rym command runs step by step: its        *)
(* position is op.pc, and it returns when it has printed its summary or an  *)
(* exception has left it.                                                   *)

Idle == [name |-> "none"]

Return ==
    /\ op.name # "none"
    /\ op.name = "rym_command" => op.pc \in {"done", "raised"}
    /\ op.name = "__init__" => op.pc = "done"
    /\ op' = Idle
    /\ ret' = <<>>
    /\ UNCHANGED <<disk, remote, now, plugin, library>>

NoRemote == [ok |-> FALSE, isdict |-> FALSE, data |-> <<>>]
RemoteOf(catalog) == [ok |-> TRUE, isdict |-> TRUE, data |-> catalog]

----------------------------------------------------------------------------
(* The hierarchy on its own: constructed from the two files, then queried *)

InitHier ==
    /\ taxFile \in TaxFiles
    /\ exclFile \in ExclFiles
    /\ cacheFile = AbsentFile
    /\ remote = NoRemote
    /\ now = 0
    /\ config = DefaultConfig
    /\ rym_data = RymNone
    /\ genre_hierarchy = None
    /\ logged_albums = {}
    /\ library = <<>>
    /\ op = Idle
    /\ ret = <<>>

\* hierarchy = RYMGenreHierarchy(...)
Construct ==
    /\ op.name = "none"
    /\ ~genre_hierarchy.present
    /\ genre_hierarchy' = RYMGenreHierarchy(taxFile, exclFile)
    /\ exclFile' = ExclFileAfterLoad(exclFile)
    /\ op' = [name |-> "construct"]
    /\ ret' = <<>>
    /\ UNCHANGED <<taxFile, cacheFile, remote, now, config, rym_data, logged_albums, library>>

CallGetAllParentGenres ==
    /\ op.name = "none"
    /\ genre_hierarchy.present
    /\ \E g \in GenreUniverse :
          /\ op' = [name |-> "get_all_parent_genres", genre |-> g]
          /\ ret' = get_all_parent_genres(genre_hierarchy, g)
    /\ UNCHANGED <<disk, remote, now, plugin, library>>

CallExpand ==
    /\ op.name = "none"
    /\ genre_hierarchy.present
    /\ \E genres \in SeqsUpTo(GenreUniverse, MaxGenres) :
          /\ op' = [name |-> "expand_genres_hierarchically", genres |-> genres]
          /\ ret' = expand_genres_hierarchically(genre_hierarchy, genres)
    /\ UNCHANGED <<disk, remote, now, plugin, library>>

\* the list is built by iterating a set of tuples: any order of its members
CallGetGenrePaths ==
    /\ op.name = "none"
    /\ genre_hierarchy.present
    /\ \E g \in GenreUniverse :
          \E paths \in SeqsUpTo(get_genre_paths(genre_hierarchy, g),
                                Cardinality(get_genre_paths(genre_hierarchy, g))) :
             /\ Range(paths) = get_genre_paths(genre_hierarchy, g)
             /\ Len(paths) = Cardinality(get_genre_paths(genre_hierarchy, g))
             /\ op' = [name |-> "get_genre_paths", genre |-> g]
             /\ ret' = paths
    /\ UNCHANGED <<disk, remote, now, plugin, library>>

NextHier ==
    \/ Construct
    \/ CallGetAllParentGenres
    \/ CallExpand
    \/ CallGetGenrePaths
    \/ Return

SpecHier == InitHier /\ [][NextHier]_vars

----------------------------------------------------------------------------
(* The matcher: _find_rym_release on catalogs of a few records *)

\* "ab"
Txt_ab == <<97, 98>>
\* "t1"
Txt_t1 == <<116, 49>>
\* "Artist [Alt Name]"
Txt_ArtistAltName == <<65, 114, 116, 105, 115, 116, 32, 91, 65, 108, 116, 32, 78, 97, 109, 101, 93>>
\* "Alt Name"
Txt_AltName == <<65, 108, 116, 32, 78, 97, 109, 101>>
\* "Title (Remaster)"
Txt_TitleRemaster == <<84, 105, 116, 108, 101, 32, 40, 82, 101, 109, 97, 115, 116, 101, 114, 41>>
\* "Title"
Txt_Title == <<84, 105, 116, 108, 101>>
QueryArtists == { Txt_ab, Txt_ArtistAltName }
QueryTitles == { Txt_t1, Txt_TitleRemaster }

\* the records of the catalogs: three with an artist name and a title, and
\* one without an artist name
MatchReleases ==
    { [artistName |-> Txt_ab, releaseTitle |-> Txt_t1],
      [artistName |-> Txt_ab, releaseTitle |-> Txt_Title],
      [artistName |-> Txt_AltName, releaseTitle |-> Txt_Title],
      [releaseTitle |-> Txt_t1] }

RECURSIVE Groupings(_)
\* the ways to cut a sequence of records into consecutive artists
Groupings(rs) ==
    IF rs = <<>> THEN { <<>> }
    ELSE UNION { { <<MappingOf(SubSeq(rs, 1, k))>> \o g :
                       g \in Groupings(SubSeq(rs, k + 1, Len(rs))) }
                 : k \in 1..Len(rs) }

\* the catalogs of at most n records drawn from R
CatalogsOf(R, n) == UNION { Groupings(rs) : rs \in SeqsUpTo(R, n) }

MatchConfigs ==
    { [DefaultConfig EXCEPT !.firebase_url = "https://example.invalid/rym.json",
                            !.similarity_threshold = th,
                            !.flexible_artist_matching = fl] :
          th \in { <<4, 5>>, <<1, 2>> }, fl \in BOOLEAN }

InitMatch ==
    /\ taxFile = AbsentFile
    /\ exclFile = AbsentFile
    /\ cacheFile = AbsentFile
    /\ remote \in { RemoteOf(c) : c \in CatalogsOf(MatchReleases, MaxCatalog) }
    /\ now = 0
    /\ config \in MatchConfigs
    /\ rym_data = RymNone
    /\ genre_hierarchy = None
    /\ logged_albums = {}
    /\ library = <<>>
    /\ op = Idle
    /\ ret = <<>>

\* self._find_rym_release(artist, album_title), the catalog loaded first;
\* op keeps the way the catalog came
FindRymReleaseOf(artists, album_titles) ==
    /\ op.name = "none"
    /\ \E artist \in artists, album_title \in album_titles :
          LET loaded == _load_rym_data(config, rym_data, cacheFile, remote, now) IN
          /\ rym_data' = loaded.rym_data
          /\ cacheFile' = loaded.cacheFile
          /\ op' = [name |-> "_find_rym_release", artist |-> artist,
                    album_title |-> album_title, via |-> loaded.via]
          /\ ret' = _find_rym_release(config, loaded.rym_data, artist, album_title)
    /\ UNCHANGED <<taxFile, exclFile, remote, now, config, genre_hierarchy,
                   logged_albums, library>>

CallFindRymRelease == FindRymReleaseOf(QueryArtists, QueryTitles)

NextMatch == CallFindRymRelease \/ Return

SpecMatch == InitMatch /\ [][NextMatch]_vars

----------------------------------------------------------------------------
(* The choice among the records: _find_rym_release on catalogs of records  *)
(* with short names, whose scores for the query "ab", "t1" are 1, 1/2 and   *)
(* 0, and of two records whose combined scores for the query "abcde",       *)
(* "abcde" are (2/3 + 1) / 2 and (5/6 + 5/6) / 2: two floats, the second    *)
(* the greater                                                              *)

\* "x"
Txt_x == <<120>>
\* "y"
Txt_y == <<121>>
\* "abcde"
Txt_abcde == <<97, 98, 99, 100, 101>>
\* "abcx"
Txt_abcx == <<97, 98, 99, 120>>
\* "abcdexy"
Txt_abcdexy == <<97, 98, 99, 100, 101, 120, 121>>

\* the records: the query itself, the same with a genre list, one that
\* shares the title only, one that shares the artist only, and one that
\* shares nothing; and the two for the query "abcde", "abcde"
ScanRecords ==
    { [artistName |-> Txt_ab, releaseTitle |-> Txt_t1],
      [artistName |-> Txt_ab, releaseTitle |-> Txt_t1, genres |-> <<"Ambient">>],
      [artistName |-> Txt_x, releaseTitle |-> Txt_t1],
      [artistName |-> Txt_ab, releaseTitle |-> Txt_y],
      [artistName |-> Txt_x, releaseTitle |-> Txt_y],
      [artistName |-> Txt_abcx, releaseTitle |-> Txt_abcde],
      [artistName |-> Txt_abcdexy, releaseTitle |-> Txt_abcdexy] }

\* the thresholds: the defaults, a lower similarity_threshold, and 0
ScanConfigs ==
    { [DefaultConfig EXCEPT !.firebase_url = "https://example.invalid/rym.json",
                            !.similarity_threshold = th,
                            !.title_match_threshold = tt,
                            !.flexible_artist_matching = TRUE] :
          th \in { <<4, 5>>, <<1, 2>>, Zero }, tt \in { <<19, 20>>, Zero } }
    \cup
    { [DefaultConfig EXCEPT !.firebase_url = "https://example.invalid/rym.json",
                            !.similarity_threshold = th,
                            !.flexible_artist_matching = FALSE] :
          th \in { <<4, 5>>, <<1, 2>>, Zero } }

InitScan ==
    /\ taxFile = AbsentFile
    /\ exclFile = AbsentFile
    /\ cacheFile = AbsentFile
    /\ remote \in { RemoteOf(c) : c \in CatalogsOf(ScanRecords, MaxCatalog) }
    /\ now = 0
    /\ config \in ScanConfigs
    /\ rym_data = RymNone
    /\ genre_hierarchy = None
    /\ logged_albums = {}
    /\ library = <<>>
    /\ op = Idle
    /\ ret = <<>>

\* the queries: the artist "ab" with the title "t1" or "y"
ScanFindRymRelease == FindRymReleaseOf({Txt_ab}, {Txt_t1, Txt_y})

\* the query "abcde", "abcde"
ScanFindRounded == FindRymReleaseOf({Txt_abcde}, {Txt_abcde})

NextScan == ScanFindRymRelease \/ ScanFindRounded \/ Return

SpecScan == InitScan /\ [][NextScan]_vars

----------------------------------------------------------------------------
(* The grouping on its own: _get_parent_genres on lists of primary genres, *)
(* the hierarchy loaded by the first call that needs it                    *)

GroupConfigs ==
    { [DefaultConfig EXCEPT !.max_groupings = m] : m \in (-1)..MaxLimit }
    \cup { [DefaultConfig EXCEPT !.use_hierarchy = FALSE] }

InitGroup ==
    /\ taxFile \in TaxFiles
    /\ exclFile \in ExclFiles
    /\ cacheFile = AbsentFile
    /\ remote = NoRemote
    /\ now = 0
    /\ config \in GroupConfigs
    /\ rym_data = RymNone
    /\ genre_hierarchy = None
    /\ logged_albums = {}
    /\ library = <<>>
    /\ op = Idle
    /\ ret = <<>>

\* self._get_parent_genres(genres)
CallGetParentGenres ==
    /\ op.name = "none"
    /\ \E genres \in SeqsUpTo(GenreUniverse, MaxGenres) :
          LET done == _get_parent_genres(config, genre_hierarchy, taxFile,
                                         exclFile, genres) IN
          /\ genre_hierarchy' = done.genre_hierarchy
          /\ exclFile' = done.exclFile
          /\ op' = [name |-> "_get_parent_genres", genres |-> genres]
          /\ ret' = done.groupings
    /\ UNCHANGED <<taxFile, cacheFile, remote, now, config, rym_data,
                   logged_albums, library>>

NextGroup == CallGetParentGenres \/ Return

SpecGroup == InitGroup /\ [][NextGroup]_vars

----------------------------------------------------------------------------
(* The hierarchy of a plugin over time: groupings are computed, the        *)
(* hierarchy they loaded is queried, and the two files are edited between  *)
(* the calls                                                               *)

\* the taxonomy documents and the exclusion documents of this part
LazyTaxFiles ==
    { AbsentFile, GarbageFile,
      FileOf([genreHierarchy |-> ChainForest]),
      FileOf([genreHierarchy |-> <<[name |-> "Ambient"], [name |-> "Electronic"]>>]) }
LazyExclFiles ==
    { AbsentFile,
      FileOf([excluded_meta_genres |-> <<"Ambient">>]),
      FileOf([excluded_meta_genres |-> <<"Electronic", "Regional Music">>]) }

InitLazy ==
    /\ taxFile \in LazyTaxFiles
    /\ exclFile \in LazyExclFiles
    /\ cacheFile = AbsentFile
    /\ remote = NoRemote
    /\ now = 0
    /\ config \in { [DefaultConfig EXCEPT !.use_hierarchy = u] : u \in BOOLEAN }
    /\ rym_data = RymNone
    /\ genre_hierarchy = None
    /\ logged_albums = {}
    /\ library = <<>>
    /\ op = Idle
    /\ ret = <<>>

\* self.genre_hierarchy.filter_valid_genres(genres)
CallFilterValid ==
    /\ op.name = "none"
    /\ genre_hierarchy.present
    /\ \E genres \in SeqsUpTo(GenreUniverse, MaxGenres) :
          /\ op' = [name |-> "filter_valid_genres", genres |-> genres]
          /\ ret' = filter_valid_genres(genre_hierarchy, genres)
    /\ UNCHANGED <<disk, remote, now, plugin, library>>

\* self.genre_hierarchy.filter_excluded_genres(genres)
CallFilterExcluded ==
    /\ op.name = "none"
    /\ genre_hierarchy.present
    /\ \E genres \in SeqsUpTo(GenreUniverse, MaxGenres) :
          /\ op' = [name |-> "filter_excluded_genres", genres |-> genres]
          /\ ret' = filter_excluded_genres(genre_hierarchy, genres)
    /\ UNCHANGED <<disk, remote, now, plugin, library>>

\* the taxonomy file is replaced between two calls
EditTaxonomy ==
    /\ op.name = "none"
    /\ \E f \in LazyTaxFiles \ {taxFile} : taxFile' = f
    /\ UNCHANGED <<exclFile, cacheFile, remote, now, plugin, library, op, ret>>

\* the exclusion file is replaced between two calls
EditExclusions ==
    /\ op.name = "none"
    /\ \E f \in LazyExclFiles \ {exclFile} : exclFile' = f
    /\ UNCHANGED <<taxFile, cacheFile, remote, now, plugin, library, op, ret>>

NextLazy ==
    \/ CallGetParentGenres
    \/ CallGetAllParentGenres
    \/ CallExpand
    \/ CallFilterValid
    \/ CallFilterExcluded
    \/ EditTaxonomy
    \/ EditExclusions
    \/ Return

SpecLazy == InitLazy /\ [][NextLazy]_vars

----------------------------------------------------------------------------
(* The tags: album_imported on an album of the library and album_distance  *)
(* on an album_info, against a catalog of one record                       *)

\* "Old": a value a field held before
Txt_Old == <<79, 108, 100>>
OldTags == [f \in TagFields |-> Txt_Old]
NoTags == [f \in TagFields |-> <<>>]

\* the lists of primary genres of the records
TagGenreLists ==
    { <<>>, <<"Regional Music">>, <<"Black Ambient", "Ambient">>,
      <<"Electronic", "Regional Music", "Black Ambient">> }

\* the secondary genres and the descriptors of a record that has them: one
\* more than the largest maximum.  The first secondary genres are "AC;DC",
\* which holds the character the tag values are split at, and " Dub", which
\* starts with a space.
SecondaryList == Take(<<"AC;DC", " Dub", "Noise", "Glitch">>, MaxLimit + 1)
DescriptorList == Take(<<"dark", "cold", "nocturnal", "sparse">>, MaxLimit + 1)

\* the records: the artist "ab", the title "t1"; the three lists present or
\* absent
TagReleases ==
    { [artistName |-> Txt_ab, releaseTitle |-> Txt_t1, genres |-> g] :
          g \in TagGenreLists }
    \cup { [artistName |-> Txt_ab, releaseTitle |-> Txt_t1, genres |-> g,
            secondaryGenres |-> SecondaryList, descriptors |-> DescriptorList] :
          g \in TagGenreLists }

TagConfigs ==
    { [DefaultConfig EXCEPT !.firebase_url = "https://example.invalid/rym.json",
                            !.max_genres = mg,
                            !.max_secondary_genres = ms,
                            !.max_descriptors = md] :
          mg \in (-1)..MaxLimit, ms \in (-1)..MaxLimit, md \in (-1)..MaxLimit }
    \cup { [DefaultConfig EXCEPT !.firebase_url = "https://example.invalid/rym.json",
                                 !.auto_tag = FALSE] }

\* an item of an album: its fields, its row in the database, the tags of
\* its file, and whether the file can be written
ItemOf(tags, flac) ==
    [tags |-> tags, db |-> tags, flac |-> flac, writable |-> TRUE,
     file |-> [f \in TagFields |-> [array |-> FALSE, value |-> tags[f]]]]

\* an item whose file cannot be written
ReadOnlyItemOf(tags, flac) == [ItemOf(tags, flac) EXCEPT !.writable = FALSE]

\* the albums: the one the records match, untagged or tagged before and
\* then with a file that cannot be written, and one that no record matches
TagAlbums ==
    { [albumartist |-> Txt_ab, albumartist_credit |-> <<>>, album |-> Txt_t1,
       tags |-> NoTags, db |-> NoTags, items |-> <<ItemOf(NoTags, TRUE)>>],
      [albumartist |-> Txt_t1, albumartist_credit |-> Txt_ab, album |-> Txt_t1,
       tags |-> OldTags, db |-> OldTags,
       items |-> <<ReadOnlyItemOf(OldTags, FALSE)>>],
      [albumartist |-> Txt_ab, albumartist_credit |-> <<>>, album |-> Txt_ab,
       tags |-> OldTags, db |-> OldTags, items |-> <<ItemOf(OldTags, TRUE)>>] }

AlbumInfos ==
    { [artist |-> Txt_ab, album |-> Txt_t1, tags |-> OldTags],
      [artist |-> Txt_ab, album |-> Txt_ab, tags |-> NoTags] }

\* the taxonomy and the exclusion document, as pairs
TagFiles ==
    { <<AbsentFile, AbsentFile>>,
      <<FileOf([genreHierarchy |-> ChainForest]), AbsentFile>>,
      <<FileOf([genreHierarchy |-> ChainForest]),
        FileOf([excluded_meta_genres |-> <<"Electronic">>])>> }

InitTags ==
    /\ \E files \in TagFiles : taxFile = files[1] /\ exclFile = files[2]
    /\ cacheFile = AbsentFile
    /\ remote \in { RemoteOf(<<MappingOf(<<r>>)>>) : r \in TagReleases }
    /\ now = 0
    /\ config \in TagConfigs
    /\ rym_data = RymNone
    /\ genre_hierarchy = None
    /\ logged_albums = {}
    /\ library \in { <<a>> : a \in TagAlbums }
    /\ op = Idle
    /\ ret = <<>>

\* album_imported(session, task) for the album of position k, or for a task
\* that is not an album; the FLAC write of each file raises or not
CallAlbumImported ==
    /\ op.name = "none"
    /\ \E k \in DOMAIN library, is_album \in BOOLEAN :
       \E flac_raises \in IF is_album THEN [DOMAIN library[k].items -> BOOLEAN]
                                      ELSE { <<>> } :
          /\ IF is_album
             THEN \E loaded \in { _load_rym_data(config, rym_data, cacheFile, remote, now) } :
                  \E done \in { ImportedAlbum(library[k],
                                    _apply_rym_tags(config, genre_hierarchy, taxFile,
                                        exclFile, library[k].tags,
                                        _find_matching_release(config, loaded.rym_data,
                                                               library[k])),
                                    flac_raises) } :
                     /\ rym_data' = loaded.rym_data
                     /\ cacheFile' = loaded.cacheFile
                     /\ genre_hierarchy' = done.genre_hierarchy
                     /\ exclFile' = done.exclFile
                     /\ library' = [library EXCEPT ![k] = done.album]
             ELSE UNCHANGED <<rym_data, cacheFile, genre_hierarchy, exclFile, library>>
          /\ op' = [name |-> "album_imported", is_album |-> is_album, k |-> k,
                    album |-> library[k], flac_raises |-> flac_raises]
          /\ ret' = <<>>
    /\ UNCHANGED <<taxFile, remote, now, config, logged_albums>>

\* album_distance(items, album_info, mapping); ret is album_info after it
CallAlbumDistance ==
    /\ op.name = "none"
    /\ \E album_info \in AlbumInfos :
          /\ IF config.auto_tag
             THEN \E loaded \in { _load_rym_data(config, rym_data, cacheFile, remote, now) } :
                  \E done \in { album_distance(config, genre_hierarchy, taxFile,
                                    exclFile, logged_albums, album_info,
                                    _find_rym_release(config, loaded.rym_data,
                                        album_info.artist, album_info.album)) } :
                     /\ rym_data' = loaded.rym_data
                     /\ cacheFile' = loaded.cacheFile
                     /\ genre_hierarchy' = done.genre_hierarchy
                     /\ exclFile' = done.exclFile
                     /\ logged_albums' = done.logged_albums
                     /\ ret' = done.album_info
             ELSE /\ UNCHANGED <<rym_data, cacheFile, genre_hierarchy, exclFile,
                                 logged_albums>>
                  /\ ret' = album_info
          /\ op' = [name |-> "album_distance", album_info |-> album_info]
    /\ UNCHANGED <<taxFile, remote, now, config, library>>

NextTags == CallAlbumImported \/ CallAlbumDistance \/ Return

SpecTags == InitTags /\ [][NextTags]_vars

----------------------------------------------------------------------------
(* The rym command: the loop of rym_command over the albums of the         *)
(* library, one step per album matched, album stored and item written      *)

\* the records: one for each of the two albums, and one whose artistName is
\* a number
BatchRecord1 ==
    [artistName |-> Txt_ab, releaseTitle |-> Txt_t1,
     genres |-> <<"Black Ambient", "Ambient">>, descriptors |-> <<"dark">>]
BatchRecord2 ==
    [artistName |-> Txt_ab, releaseTitle |-> Txt_y, genres |-> <<"Electronic">>]
BadRecord == [artistName |-> NotAString, releaseTitle |-> Txt_t1]

BatchCatalogs ==
    { <<MappingOf(<<BatchRecord1, BatchRecord2>>)>>,
      <<MappingOf(<<BatchRecord1>>)>>,
      <<MappingOf(<<BatchRecord1, BatchRecord2>>), MappingOf(<<BadRecord>>)>> }

\* the albums: "ab" - "t1" with two items, the file of the second of which
\* cannot be written, "ab" - "y" with one, tagged before, and "x" - "x",
\* which no record matches
BatchAlbums ==
    { [albumartist |-> Txt_ab, albumartist_credit |-> <<>>, album |-> Txt_t1,
       tags |-> NoTags, db |-> NoTags,
       items |-> <<ItemOf(NoTags, TRUE), ReadOnlyItemOf(NoTags, FALSE)>>],
      [albumartist |-> Txt_ab, albumartist_credit |-> <<>>, album |-> Txt_y,
       tags |-> OldTags, db |-> OldTags, items |-> <<ItemOf(OldTags, TRUE)>>],
      [albumartist |-> Txt_x, albumartist_credit |-> <<>>, album |-> Txt_x,
       tags |-> NoTags, db |-> NoTags, items |-> <<>>] }

InitBatch ==
    /\ taxFile = FileOf([genreHierarchy |-> ChainForest])
    /\ exclFile = AbsentFile
    /\ cacheFile = AbsentFile
    /\ remote \in { RemoteOf(c) : c \in BatchCatalogs }
    /\ now = 0
    /\ config \in { [DefaultConfig EXCEPT
                        !.firebase_url = "https://example.invalid/rym.json",
                        !.log_missing_matches = l] : l \in BOOLEAN }
    /\ rym_data = RymNone
    /\ genre_hierarchy = None
    /\ logged_albums = {}
    /\ library \in SeqsUpTo(BatchAlbums, MaxAlbums)
    /\ op = Idle
    /\ ret = <<>>

\* lib.albums(): the albums and their items as the database holds them
FromDatabase(album) ==
    [album EXCEPT !.tags = album.db,
                  !.items = [i \in DOMAIN album.items |->
                                [album.items[i] EXCEPT !.tags = album.items[i].db]]]

\* the number of runs of the command in a row
MaxRuns == 2

\* rym_command(lib, opts, args) without a query, up to the loop: the
\* albums are read, the counters start at 0 and missing_matches is empty;
\* op.albums keeps the albums as they were read.  The command is run
\* again after it has returned, or right after a run that completed: then
\* op.earlier holds the positions of the albums that run, made without
\* --force, has updated, and op.updated collects those of this run.
CallRymCommand ==
    /\ \/ op.name = "none"
       \/ op.name = "rym_command" /\ op.pc = "done" /\ op.run < MaxRuns
    /\ \E force \in BOOLEAN :
          /\ library' = [k \in DOMAIN library |-> FromDatabase(library[k])]
          /\ op' = [name |-> "rym_command", force |-> force, pc |-> "album",
                    k |-> 1, i |-> 0,
                    albums |-> [k \in DOMAIN library |-> FromDatabase(library[k])],
                    total_processed |-> 0, total_updated |-> 0,
                    total_skipped |-> 0, total_missing |-> 0,
                    missing_matches |-> <<>>, log |-> "none",
                    run |-> IF op.name = "none" THEN 1 ELSE op.run + 1,
                    updated |-> {},
                    earlier |-> IF op.name = "rym_command" /\ ~op.force
                                THEN op.updated ELSE {}]
    /\ ret' = <<>>
    /\ UNCHANGED <<disk, remote, now, plugin>>

\* new_genre, new_secondary_genre, new_descriptor, new_grouping: '' where
\* the list is empty or the maximum is not positive
NewTags(cfg, release_data, grouped) ==
    ResolvedTags(cfg, release_data, NoTags, grouped).tags

\* the loop of rym_command for the album of position op.k, up to
\* self._apply_rym_tags(album): an exception of the matcher leaves the
\* command; an album without a match and an album whose tags are the new
\* ones already (without --force) are counted and passed over; the fields
\* of any other album are set
CommandAlbum ==
    /\ op.name = "rym_command"
    /\ op.pc = "album"
    /\ op.k <= Len(library)
    /\ \E loaded \in { _load_rym_data(config, rym_data, cacheFile, remote, now) } :
       \E found \in { _find_matching_release(config, loaded.rym_data, library[op.k]) } :
          /\ rym_data' = loaded.rym_data
          /\ cacheFile' = loaded.cacheFile
          /\ IF found.raised
             THEN /\ op' = [op EXCEPT !.pc = "raised", !.total_processed = @ + 1]
                  /\ UNCHANGED <<genre_hierarchy, exclFile, library>>
             ELSE IF found.best_match.none
             THEN /\ op' = [op EXCEPT !.k = @ + 1, !.total_processed = @ + 1,
                                      !.total_missing = @ + 1,
                                      !.missing_matches =
                                          Append(@, <<library[op.k].albumartist,
                                                      library[op.k].album>>)]
                  /\ UNCHANGED <<genre_hierarchy, exclFile, library>>
             ELSE \E grouped \in { _get_parent_genres(config, genre_hierarchy, taxFile,
                                       exclFile,
                                       GetList(found.best_match.release_data, "genres")) } :
                     /\ genre_hierarchy' = grouped.genre_hierarchy
                     /\ exclFile' = grouped.exclFile
                     /\ IF /\ ~op.force
                           /\ library[op.k].tags
                                 = NewTags(config, found.best_match.release_data, grouped)
                        THEN /\ op' = [op EXCEPT !.k = @ + 1, !.total_processed = @ + 1,
                                                 !.total_skipped = @ + 1]
                             /\ UNCHANGED library
                        ELSE /\ op' = [op EXCEPT !.pc = "store", !.total_processed = @ + 1]
                             /\ library' =
                                   [library EXCEPT ![op.k].tags =
                                       _apply_rym_tags(config, grouped.genre_hierarchy,
                                           taxFile, grouped.exclFile, library[op.k].tags,
                                           found).tags]
    /\ ret' = <<>>
    /\ UNCHANGED <<taxFile, remote, now, config, logged_albums>>

\* album.store(): the row of the album is written, or the database raises
CommandStoreAlbum ==
    /\ op.name = "rym_command"
    /\ op.pc = "store"
    /\ \E raises \in BOOLEAN :
          IF raises
          THEN /\ op' = [op EXCEPT !.pc = "raised"]
               /\ UNCHANGED library
          ELSE /\ op' = [op EXCEPT !.pc = "items", !.i = 1]
               /\ library' = [library EXCEPT ![op.k].db = library[op.k].tags]
    /\ UNCHANGED <<disk, remote, now, plugin, ret>>

\* for item in album.items(): whether the loop has an item left
ItemsLeftFirstOnly(o, album) == o.i <= Len(album.items) /\ o.i <= 1
ItemsLeft(o, album) == o.i <= Len(album.items)

\* the body of that loop for the item of position op.i: the tags of the
\* album are copied, item.store() writes the row or raises, and
\* _write_item_with_flac_arrays writes the file, falling back to
\* item.try_write() when the FLAC write raises; when try_write fails the
\* file stays as it was and the loop goes on
CommandItem ==
    /\ op.name = "rym_command"
    /\ op.pc = "items"
    /\ ItemsLeft(op, library[op.k])
    /\ \E raises \in BOOLEAN, flac_raises \in BOOLEAN :
       \E item \in { [library[op.k].items[op.i] EXCEPT !.tags =
                         _apply_rym_tags_to_item(@, library[op.k].tags)] } :
          IF raises
          THEN /\ op' = [op EXCEPT !.pc = "raised"]
               /\ library' = [library EXCEPT ![op.k].items[op.i] = item]
          ELSE /\ op' = [op EXCEPT !.i = @ + 1]
               /\ library' =
                     [library EXCEPT ![op.k].items[op.i] =
                         ImportedItem(library[op.k].items[op.i],
                                      library[op.k].tags, flac_raises)]
    /\ UNCHANGED <<disk, remote, now, plugin, ret>>

\* after the last item: total_updated += 1, the tags are printed, and the
\* loop goes on with the next album
CommandAlbumDone ==
    /\ op.name = "rym_command"
    /\ op.pc = "items"
    /\ ~ItemsLeft(op, library[op.k])
    /\ op' = [op EXCEPT !.pc = "album", !.k = @ + 1, !.i = 0, !.total_updated = @ + 1,
                        !.updated = @ \cup {op.k}]
    /\ UNCHANGED <<disk, remote, now, plugin, library, ret>>

\* after the last album: the summary is printed
CommandSummary ==
    /\ op.name = "rym_command"
    /\ op.pc = "album"
    /\ op.k > Len(library)
    /\ op' = [op EXCEPT !.pc = "log"]
    /\ ret' = [total_updated |-> op.total_updated,
               total_processed |-> op.total_processed,
               total_skipped |-> op.total_skipped,
               total_missing |-> op.total_missing,
               logged |-> <<>>]
    /\ UNCHANGED <<disk, remote, now, plugin, library>>

\* a log that gets the first of the missing albums only
LoggedLinesFirstOnly(cfg, missing_matches, outcome) ==
    IF missing_matches # <<>> /\ cfg.log_missing_matches /\ outcome = "written"
    THEN <<missing_matches[1]>>
    ELSE <<>>

\* the lines appended to missing_matches_logfile, one for each entry of
\* missing_matches: none when the list is empty, when log_missing_matches
\* is off, or when the file cannot be opened for appending
LoggedLines(cfg, missing_matches, outcome) ==
    IF missing_matches # <<>> /\ cfg.log_missing_matches /\ outcome = "written"
    THEN missing_matches
    ELSE <<>>

\* after the summary: the missing-matches log.  os.makedirs of a directory
\* that cannot be made raises outside the try; a failure of open or write
\* is caught and reported.
CommandLogMissing ==
    /\ op.name = "rym_command"
    /\ op.pc = "log"
    /\ \E outcome \in IF op.missing_matches # <<>> /\ config.log_missing_matches
                       THEN {"written", "open failed", "makedirs failed"}
                       ELSE {"not attempted"} :
          IF outcome = "makedirs failed"
          THEN /\ op' = [op EXCEPT !.pc = "raised", !.log = outcome]
               /\ ret' = ret
          ELSE /\ op' = [op EXCEPT !.pc = "done", !.log = outcome]
               /\ ret' = [ret EXCEPT !.logged =
                              LoggedLines(config, op.missing_matches, outcome)]
    /\ UNCHANGED <<disk, remote, now, plugin, library>>

NextBatch ==
    \/ CallRymCommand
    \/ CommandAlbum
    \/ CommandStoreAlbum
    \/ CommandItem
    \/ CommandAlbumDone
    \/ CommandSummary
    \/ CommandLogMissing
    \/ Return

SpecBatch == InitBatch /\ [][NextBatch]_vars

----------------------------------------------------------------------------
(* What the taxonomy document says, read independently of _parse_tree *)

\* the forest of the taxonomy document; none when it cannot be read
TaxForest ==
    IF taxFile.exists /\ taxFile.valid /\ "genreHierarchy" \in DOMAIN taxFile.doc
    THEN taxFile.doc.genreHierarchy
    ELSE <<>>

RECURSIVE HasNameless(_)
HasNameless(forest) ==
    \E i \in DOMAIN forest :
        \/ "name" \notin DOMAIN forest[i]
        \/ "children" \in DOMAIN forest[i] /\ HasNameless(forest[i].children)

\* the taxonomy input is missing or malformed somewhere
TaxonomyBroken ==
    \/ ~taxFile.exists
    \/ ~taxFile.valid
    \/ "genreHierarchy" \notin DOMAIN taxFile.doc
    \/ HasNameless(taxFile.doc.genreHierarchy)

RECURSIVE RoutesOf(_, _)
\* every route of a well-formed forest: the names from a root down to a node
RoutesOf(forest, prefix) ==
    UNION { LET p == Append(prefix, forest[i].name) IN
            {p} \cup (IF "children" \in DOMAIN forest[i]
                      THEN RoutesOf(forest[i].children, p) ELSE {})
            : i \in DOMAIN forest }

Routes == RoutesOf(TaxForest, <<>>)

RoutesTo(g) == { r \in Routes : r[Len(r)] = g }

\* the names above g on any route to it
StrictAncestors(g) == UNION { { r[i] : i \in 1..(Len(r) - 1) } : r \in RoutesTo(g) }

----------------------------------------------------------------------------
(* Claims about the hierarchy index, checked under SpecHier *)

\* C4 (as claimed): once the hierarchy is constructed from a missing or
\* malformed taxonomy, all_genres and genre_to_parents are both empty.
C4_BrokenTaxonomyLeavesIndexEmpty ==
    (genre_hierarchy.present /\ TaxonomyBroken)
        => /\ genre_hierarchy.all_genres = {}
           /\ DOMAIN genre_hierarchy.genre_to_parents = {}

\* C8: expand_genres_hierarchically returns exactly the input genres united
\* with get_all_parent_genres of each of them, minus the exclusion set.
C8_ExpandIsClosureMinusExcluded ==
    (op.name = "expand_genres_hierarchically")
        => ret = (Range(op.genres)
                  \cup UNION { get_all_parent_genres(genre_hierarchy, g) :
                               g \in Range(op.genres) })
                 \ genre_hierarchy.excluded_genres

\* C8 witness: an excluded input genre is left out while one of its
\* ancestors, not excluded, is in the result.
C8_Witness ==
    /\ op.name = "expand_genres_hierarchically"
    /\ \E g \in Range(op.genres) :
          /\ g \in genre_hierarchy.excluded_genres
          /\ g \notin ret
          /\ get_all_parent_genres(genre_hierarchy, g) \cap ret # {}

\* C9: on a well-formed taxonomy get_all_parent_genres(G) is exactly the set
\* of strict ancestors of every occurrence of G, empty for an unknown G or one
\* that occurs only as a root; on the chain Electronic > Ambient > Black
\* Ambient it gives {Electronic, Ambient} for Black Ambient.
C9_AllParentsAreStrictAncestors ==
    (op.name = "get_all_parent_genres" /\ ~HasNameless(TaxForest))
        => /\ ret = StrictAncestors(op.genre)
           /\ (\A r \in RoutesTo(op.genre) : Len(r) = 1) => ret = {}
           /\ (TaxForest = ChainForest /\ op.genre = "Black Ambient")
                 => ret = {"Electronic", "Ambient"}

C9_Witness ==
    /\ op.name = "get_all_parent_genres"
    /\ TaxForest = ChainForest
    /\ op.genre = "Black Ambient"
    /\ ret = {"Electronic", "Ambient"}

\* C10 (as claimed): a genre with two distinct routes, a root occurrence
\* included, has at least 2 stored ancestor paths, and its parents are the
\* union of the ancestors on its routes.
C10_TwoRoutesTwoPaths ==
    (genre_hierarchy.present /\ ~HasNameless(TaxForest))
        => \A g \in TreeNames :
              Cardinality(RoutesTo(g)) >= 2
                 => /\ Cardinality(genre_hierarchy.genre_to_parents[g]) >= 2
                    /\ get_all_parent_genres(genre_hierarchy, g) = StrictAncestors(g)

\* C10 (amended): a genre with two distinct routes on neither of which it is
\* a root has at least 2 stored ancestor paths; a root occurrence stores no
\* path; and the parents of every genre with two distinct routes are the
\* union of the ancestors on its routes.
C10_TwoNonRootRoutesTwoPaths ==
    (genre_hierarchy.present /\ ~HasNameless(TaxForest))
        => \A g \in TreeNames :
              /\ Cardinality({ r \in RoutesTo(g) : Len(r) >= 2 }) >= 2
                    => Cardinality(genre_hierarchy.genre_to_parents[g]) >= 2
              /\ Cardinality(RoutesTo(g)) >= 2
                    => get_all_parent_genres(genre_hierarchy, g) = StrictAncestors(g)
              /\ (RoutesTo(g) # {} /\ \A r \in RoutesTo(g) : Len(r) = 1)
                    => genre_hierarchy.genre_to_parents[g] = {}

C10_Witness ==
    /\ genre_hierarchy.present
    /\ ~HasNameless(TaxForest)
    /\ \E g \in TreeNames :
          /\ Cardinality({ r \in RoutesTo(g) : Len(r) >= 2 }) >= 2
          /\ Cardinality(genre_hierarchy.genre_to_parents[g]) >= 2

----------------------------------------------------------------------------
(* Claims about the matcher, checked under SpecMatch *)

\* the records of the loaded catalog in the order of the scan
ScannedReleases == Flatten(rym_data.data, 1)

\* C2 (as claimed): for every scanned record the artist score is the maximum
\* similarity over the variations of the query artist paired with the
\* variations of the record's artist, and likewise for the titles; the query
\* "Artist [Alt Name]", "Title (Remaster)" against the record "Alt Name",
\* "Title" gets the combined score 1.0.
C2_ScoresAreCrossProductMaxima ==
    (op.name = "_find_rym_release")
        => \A k \in DOMAIN ret.scanned :
              ~ret.scanned[k].skipped
                 => /\ ScoreEq(ret.scanned[k].artist,
                               BestOverPairs(
                                   _get_artist_variations(op.artist),
                                   _get_artist_variations(ScannedReleases[k].artistName)))
                    /\ ScoreEq(ret.scanned[k].title,
                               BestOverPairs(
                                   _get_album_variations(op.album_title),
                                   _get_album_variations(ScannedReleases[k].releaseTitle)))
                    /\ (/\ op.artist = Txt_ArtistAltName
                        /\ op.album_title = Txt_TitleRemaster
                        /\ ScannedReleases[k].artistName = Txt_AltName
                        /\ ScannedReleases[k].releaseTitle = Txt_Title)
                          => ret.scanned[k].combined = FloatOf(<<1, 1>>)

----------------------------------------------------------------------------
(* Claims about the grouping, checked under SpecGroup *)

\* what _get_parent_genres has to sort and limit, read from the index: the
\* parents of the primary genres that are not primary genres themselves and
\* the primary genres without parents, the excluded names left out
Candidates ==
    ((UNION { get_all_parent_genres(genre_hierarchy, g) : g \in Range(op.genres) }
         \ Range(op.genres))
     \cup { g \in Range(op.genres) : get_all_parent_genres(genre_hierarchy, g) = {} })
    \ genre_hierarchy.excluded_genres

\* C3 (as claimed): with use_hierarchy disabled, or with a taxonomy file that
\* is missing or malformed, _get_parent_genres returns the empty list.
C3_NoGroupingWithoutTaxonomy ==
    (op.name = "_get_parent_genres" /\ (~config.use_hierarchy \/ TaxonomyBroken))
        => ret = <<>>

\* C5 (as claimed): the grouping holds no genre of the primary genre list,
\* primary genres without ancestors included.
C5_NoPrimaryGenreInGrouping ==
    (op.name = "_get_parent_genres")
        => Range(ret) \cap Range(op.genres) = {}

\* C5 (amended): a primary genre is in the grouping only when it has no
\* parents in the index; and such a primary genre, unless excluded, is in
\* the grouping whenever the grouping is not cut by max_groupings.
C5_OnlyParentlessPrimaryInGrouping ==
    (op.name = "_get_parent_genres")
        => /\ \A g \in Range(ret) \cap Range(op.genres) :
                 get_all_parent_genres(genre_hierarchy, g) = {}
           /\ (config.use_hierarchy
               /\ (config.max_groupings <= 0 \/ Len(ret) < config.max_groupings))
                 => \A g \in Range(op.genres) :
                       (/\ get_all_parent_genres(genre_hierarchy, g) = {}
                        /\ g \notin genre_hierarchy.excluded_genres)
                          => g \in Range(ret)

\* C5 witness: a primary genre that is a parent of another primary genre and
\* has parents itself is left out of a grouping that is not empty.
C5_Witness ==
    /\ op.name = "_get_parent_genres"
    /\ ret # <<>>
    /\ \E g \in Range(op.genres) :
          /\ get_all_parent_genres(genre_hierarchy, g) # {}
          /\ \E x \in Range(op.genres) : g \in get_all_parent_genres(genre_hierarchy, x)
          /\ g \notin genre_hierarchy.excluded_genres
          /\ g \notin Range(ret)

\* C6 (as claimed): for every max_groupings, 0 and the negative values
\* included, the grouping is the sorted candidates cut to the maximum, so it
\* has at most max_groupings entries (none for a maximum of 0 or less).
C6_AtMostMaxGroupings ==
    (op.name = "_get_parent_genres" /\ config.use_hierarchy /\ op.genres # <<>>)
        => /\ Len(ret) <= (IF config.max_groupings > 0 THEN config.max_groupings ELSE 0)
           /\ ret = Take(SortedNames(Candidates),
                         IF config.max_groupings > 0 THEN config.max_groupings ELSE 0)

\* C6 (amended): for a max_groupings greater than 0 the grouping is the
\* first max_groupings of the sorted candidates, so it has at most that many
\* entries; for a max_groupings of 0 or less it is all the sorted candidates.
C6_LimitedOnlyWhenPositive ==
    (op.name = "_get_parent_genres" /\ config.use_hierarchy /\ op.genres # <<>>)
        => /\ config.max_groupings > 0
                 => /\ Len(ret) <= config.max_groupings
                    /\ ret = Take(SortedNames(Candidates), config.max_groupings)
           /\ config.max_groupings <= 0 => ret = SortedNames(Candidates)

\* C6 witness: more candidates than a positive max_groupings, and a grouping
\* of exactly max_groupings entries.
C6_Witness ==
    /\ op.name = "_get_parent_genres"
    /\ config.use_hierarchy
    /\ config.max_groupings > 0
    /\ Cardinality(Candidates) > config.max_groupings
    /\ Len(ret) = config.max_groupings

----------------------------------------------------------------------------
(* Claims about the tags, checked under SpecTags *)

\* the names a tag value holds
NamesOf(value) == Range(SplitValue(value))

\* the exclusion set: what the exclusion document gives, as the names are
\* written
ExclusionSet == { Spelling(n) : n \in load_excluded_genres(exclFile) }

\* the record album_imported matched for its album, none without a match
ImportMatch == _find_matching_release(config, rym_data, op.album).best_match

\* the record album_distance matched for its album_info
DistanceMatch ==
    _find_rym_release(config, rym_data, op.album_info.artist,
                      op.album_info.album).best_match

\* C1 (as claimed): once album_imported has tagged an album from a matched
\* record, no name of the exclusion set is in the genre field or in the
\* grouping field of the album.
C1_NoExcludedNameInTags ==
    (op.name = "album_imported" /\ op.is_album /\ ~ImportMatch.none)
        => (NamesOf(library[op.k].tags.genre)
            \cup NamesOf(library[op.k].tags.grouping)) \cap ExclusionSet = {}

\* the three list fields: the field, the key of the record, the maximum
ListFields ==
    { <<"genre", "genres", "max_genres">>,
      <<"secondary_genre", "secondaryGenres", "max_secondary_genres">>,
      <<"descriptor", "descriptors", "max_descriptors">> }

\* the fields after are what the record release_data and the maxima make of
\* the fields before
FirstEntriesWritten(release_data, before, after) ==
    \A lf \in ListFields :
        /\ (config[lf[3]] > 0 /\ GetList(release_data, lf[2]) # <<>>)
              => after[lf[1]]
                    = Join([i \in 1..(IF config[lf[3]] < Len(GetList(release_data, lf[2]))
                                      THEN config[lf[3]]
                                      ELSE Len(GetList(release_data, lf[2])))
                               |-> GetList(release_data, lf[2])[i]])
        /\ config[lf[3]] <= 0 => after[lf[1]] = before[lf[1]]

\* C7: for each of the genre, secondary-genre and descriptor fields, with a
\* maximum greater than 0 the value written is the first maximum entries of
\* the record's list in the record's order, and with a maximum of 0 or less
\* the field is not written: it holds what it held before, whatever the
\* record has.  For the album of album_imported and for the album_info of
\* album_distance.
C7_FirstEntriesOrNothing ==
    /\ (op.name = "album_imported" /\ op.is_album /\ ~ImportMatch.none)
          => FirstEntriesWritten(ImportMatch.release_data, op.album.tags,
                                 library[op.k].tags)
    /\ (op.name = "album_distance" /\ config.auto_tag /\ ~DistanceMatch.none)
          => FirstEntriesWritten(DistanceMatch.release_data, op.album_info.tags,
                                 ret.tags)

\* C7 witness: an album tagged before, a record with more secondary genres
\* than the maximum and with descriptors, max_secondary_genres positive and
\* max_descriptors 0: the secondary genres are cut, the descriptor field is
\* left as it was.
C7_Witness ==
    /\ op.name = "album_imported"
    /\ op.is_album
    /\ ~ImportMatch.none
    /\ op.album.tags = OldTags
    /\ config.max_secondary_genres > 0
    /\ Len(GetList(ImportMatch.release_data, "secondaryGenres")) > config.max_secondary_genres
    /\ library[op.k].tags.secondary_genre
          = Join(Take(ImportMatch.release_data.secondaryGenres, config.max_secondary_genres))
    /\ config.max_descriptors = 0
    /\ GetList(ImportMatch.release_data, "descriptors") # <<>>
    /\ library[op.k].tags.descriptor = Txt_Old

----------------------------------------------------------------------------
(* More claims about the hierarchy index, checked under SpecHier *)

\* the names that occur in the ancestor paths the index stores
PathNames(h) ==
    UNION { UNION { Range(path) : path \in h.genre_to_parents[g] }
            : g \in DOMAIN h.genre_to_parents }

\* C11: every name that occurs in an ancestor path stored in
\* genre_to_parents is a member of all_genres, also in the index a parse
\* leaves behind when it stops part-way on a node without a name.
C11_PathNamesAreRegistered ==
    genre_hierarchy.present => PathNames(genre_hierarchy) \subseteq genre_hierarchy.all_genres

\* C11 witness: the parse stopped on a nameless node after it had stored an
\* ancestor path.
C11_Witness ==
    /\ genre_hierarchy.present
    /\ HasNameless(TaxForest)
    /\ PathNames(genre_hierarchy) # {}
    /\ PathNames(genre_hierarchy) \subseteq genre_hierarchy.all_genres

\* C25 (as claimed): for a genre of a well-formed taxonomy, the lists
\* returned by get_genre_paths are exactly the routes of the forest from a
\* root down to an occurrence of the genre, the one-element route of a root
\* included.
C25_PathsAreTheRoutes ==
    (/\ op.name = "get_genre_paths"
     /\ ~HasNameless(TaxForest)
     /\ op.genre \in genre_hierarchy.all_genres)
        => Range(ret) = RoutesTo(op.genre)

----------------------------------------------------------------------------
(* The catalog over time: the first call loads it from the cache file or   *)
(* from the remote document, the clock advances, the remote document is    *)
(* republished and the cache file is removed                               *)

\* cache_duration, in ticks of the clock
CacheDuration == 2

\* the records of a remote document: a good one, a value that is not a
\* mapping, and one whose artistName is a number
CatalogRecords ==
    { [artistName |-> Txt_ab, releaseTitle |-> Txt_t1],
      NotARecord,
      [artistName |-> NotAString, releaseTitle |-> Txt_t1] }

\* the catalog that is republished, and the one a cache file holds
Republished == <<MappingOf(<<[artistName |-> Txt_x, releaseTitle |-> Txt_t1]>>)>>
Cached == <<MappingOf(<<[artistName |-> Txt_ab, releaseTitle |-> Txt_y]>>)>>

\* the remote documents: none (the request or the parse fails), a document
\* that is not a mapping, and mappings, with artist values that are not
\* mappings and with a title that is a number
NotAMappingRemote == [ok |-> TRUE, isdict |-> FALSE, data |-> <<>>]
Remotes ==
    { NoRemote, NotAMappingRemote }
    \cup { RemoteOf(c) : c \in CatalogsOf(CatalogRecords, MaxCatalog) }
    \cup { RemoteOf(<<NotAMapping>>),
           RemoteOf(<<NotAMapping, MappingOf(<<[artistName |-> Txt_ab,
                                                releaseTitle |-> Txt_t1]>>)>>),
           RemoteOf(<<MappingOf(<<[artistName |-> Txt_x,
                                   releaseTitle |-> NotAString]>>)>>) }

\* the cache files: none, one that does not parse, documents written at
\* time 1 (with and without the right to rewrite them), without timestamp,
\* without data, and with data that is not a mapping
CacheFiles ==
    { AbsentFile, ReadOnlyAbsentFile, GarbageFile,
      FileOf([timestamp |-> 1, data |-> MappingOf(Cached)]),
      [FileOf([timestamp |-> 1, data |-> MappingOf(Cached)]) EXCEPT !.writable = FALSE],
      FileOf([data |-> MappingOf(Cached)]),
      FileOf([timestamp |-> 1]),
      FileOf([timestamp |-> 1, data |-> NotAMapping]) }

CatalogConfigs ==
    { [DefaultConfig EXCEPT !.firebase_url = u, !.cache_duration = CacheDuration,
                            !.require_rym_match = r] :
          u \in { "", "https://example.invalid/rym.json" }, r \in BOOLEAN }

InitCatalog ==
    /\ taxFile = AbsentFile
    /\ exclFile = AbsentFile
    /\ cacheFile \in CacheFiles
    /\ remote \in Remotes
    /\ now = 1
    /\ config \in CatalogConfigs
    /\ rym_data = RymNone
    /\ genre_hierarchy = None
    /\ logged_albums = {}
    /\ library = <<>>
    /\ op = Idle
    /\ ret = <<>>

\* time.time() advances
Tick ==
    /\ now < MaxNow
    /\ now' = now + 1
    /\ UNCHANGED <<disk, remote, plugin, library, op, ret>>

\* the remote document is replaced
Republish ==
    /\ remote # RemoteOf(Republished)
    /\ remote' = RemoteOf(Republished)
    /\ UNCHANGED <<disk, now, plugin, library, op, ret>>

\* the cache file is removed
RemoveCache ==
    /\ cacheFile.exists
    /\ cacheFile' = AbsentFile
    /\ UNCHANGED <<taxFile, exclFile, remote, now, plugin, library, op, ret>>

\* "Unknown"
Txt_Unknown == <<85, 110, 107, 110, 111, 119, 110>>

\* the import tasks: album tasks and singleton tasks, without items, with a
\* first item that names the album artist, with one whose albumartist is
\* empty, and with one that has none of the three attributes
ImportTasks ==
    { [is_album |-> b, items |-> its] :
          b \in BOOLEAN,
          its \in { <<>>,
                    <<[albumartist |-> Txt_ab, artist |-> Txt_x, album |-> Txt_t1]>>,
                    <<[albumartist |-> <<>>, artist |-> Txt_ab, album |-> Txt_t1],
                      [albumartist |-> Txt_x, artist |-> Txt_x, album |-> Txt_y]>>,
                    <<[albumartist |-> Txt_x, artist |-> Txt_x, album |-> Txt_y]>>,
                    <<[title |-> Txt_t1]>> } }

\* the importer announces a task; the catalog is loaded only on the path
\* that calls _find_rym_release
CallOnImportTaskCreated ==
    /\ op.name = "none"
    /\ \E task \in ImportTasks :
          LET asks == config.require_rym_match /\ task.is_album /\ task.items # <<>>
              first_item == task.items[1]
              artist == IF "albumartist" \in DOMAIN first_item
                           /\ first_item.albumartist # <<>>
                        THEN first_item.albumartist
                        ELSE IF "artist" \in DOMAIN first_item
                             THEN first_item.artist
                             ELSE Txt_Unknown
              album == IF "album" \in DOMAIN first_item
                       THEN first_item.album
                       ELSE Txt_Unknown
              loaded == IF asks
                        THEN _load_rym_data(config, rym_data, cacheFile, remote, now)
                        ELSE [rym_data |-> rym_data, cacheFile |-> cacheFile,
                              via |-> "not asked"]
              found == IF asks
                       THEN _find_rym_release(config, loaded.rym_data, artist, album)
                       ELSE [raised |-> FALSE]
          IN  /\ rym_data' = loaded.rym_data
              /\ cacheFile' = loaded.cacheFile
              /\ op' = [name |-> "on_import_task_created", task |-> task,
                        via |-> loaded.via, found |-> found]
              /\ ret' = on_import_task_created(config, task, found)
    /\ UNCHANGED <<taxFile, exclFile, remote, now, config, genre_hierarchy,
                   logged_albums, library>>

NextCatalog ==
    \/ ScanFindRymRelease
    \/ CallOnImportTaskCreated
    \/ Return
    \/ Tick
    \/ Republish
    \/ RemoveCache

SpecCatalog == InitCatalog /\ [][NextCatalog]_vars

----------------------------------------------------------------------------
(* Claims about the choice among the records, checked under SpecScan *)

\* the positions of the scan whose record got scores
Scored == { k \in DOMAIN ret.scanned : ~ret.scanned[k].skipped }

\* the two bars, read from the scores of the record of position k: the
\* primary one (combined score >= similarity_threshold) and the flexible one
\* (flexible matching on, title score >= title_match_threshold, artist score
\* < similarity_threshold)
MetPrimaryBar(k) ==
    FloatLeq(FloatOf(config.similarity_threshold), ret.scanned[k].combined)
MetFlexibleBar(k) ==
    /\ config.flexible_artist_matching
    /\ ScoreLeq(config.title_match_threshold, ret.scanned[k].title)
    /\ ScoreLess(ret.scanned[k].artist, config.similarity_threshold)
MetABar(k) == MetPrimaryBar(k) \/ MetFlexibleBar(k)
Positive(k) == FloatLess(FloatZero, ret.scanned[k].combined)

\* what is returned is the record of position best_at, with its score
ReturnsRecordAt(k) ==
    /\ ~ret.best_match.none
    /\ ret.best_at = k
    /\ ret.best_match.release_data = ScannedReleases[k]
    /\ ret.best_score = ret.scanned[k].combined

\* C12 (as claimed): the returned record met the primary or the flexible
\* bar and its combined score is maximal among the records that met either;
\* None is returned if no record met a bar, and a record is returned
\* whenever at least one record met a bar.
C12_BestAmongAccepted ==
    (op.name = "_find_rym_release" /\ ~ret.raised)
        => /\ ret.best_match.none <=> ~ \E k \in Scored : MetABar(k)
           /\ ~ret.best_match.none
                 => /\ ret.best_at \in Scored
                    /\ ReturnsRecordAt(ret.best_at)
                    /\ MetABar(ret.best_at)
                    /\ \A k \in Scored :
                          MetABar(k) => FloatLeq(ret.scanned[k].combined, ret.best_score)

\* C12 (amended): the same, a record being returned whenever at least one
\* record with a combined score above 0 met a bar, and None when there is no
\* such record.
C12_BestAmongAcceptedAboveZero ==
    (op.name = "_find_rym_release" /\ ~ret.raised)
        => /\ ret.best_match.none <=> ~ \E k \in Scored : MetABar(k) /\ Positive(k)
           /\ ~ret.best_match.none
                 => /\ ret.best_at \in Scored
                    /\ ReturnsRecordAt(ret.best_at)
                    /\ MetABar(ret.best_at)
                    /\ \A k \in Scored :
                          MetABar(k) => FloatLeq(ret.scanned[k].combined, ret.best_score)

\* C12 witness: two records met a bar with different scores, the better one
\* last, and it is the one returned.
C12_Witness ==
    /\ op.name = "_find_rym_release"
    /\ ~ret.best_match.none
    /\ ret.best_at > 1
    /\ ReturnsRecordAt(ret.best_at)
    /\ \E k \in Scored :
          /\ k < ret.best_at
          /\ MetABar(k)
          /\ FloatLess(ret.scanned[k].combined, ret.best_score)

\* C13 (as claimed): with flexible matching on, a record that meets the
\* flexible bar and whose combined score exceeds that of every other record
\* that met a bar is the one returned, also when its combined score is below
\* similarity_threshold and wherever it stands in the catalog; with flexible
\* matching off no record with a combined score below the threshold is
\* returned.
C13_FlexibleCompetes ==
    (op.name = "_find_rym_release" /\ ~ret.raised)
        => /\ config.flexible_artist_matching
                 => \A k \in Scored :
                       (/\ MetFlexibleBar(k)
                        /\ \A j \in Scored \ {k} :
                              MetABar(j) => FloatLess(ret.scanned[j].combined,
                                                      ret.scanned[k].combined))
                          => ReturnsRecordAt(k)
           /\ (~config.flexible_artist_matching /\ ~ret.best_match.none)
                 => FloatLeq(FloatOf(config.similarity_threshold), ret.best_score)

\* C13 (amended): the same for a record whose combined score is above 0.
C13_FlexibleCompetesAboveZero ==
    (op.name = "_find_rym_release" /\ ~ret.raised)
        => /\ config.flexible_artist_matching
                 => \A k \in Scored :
                       (/\ MetFlexibleBar(k)
                        /\ Positive(k)
                        /\ \A j \in Scored \ {k} :
                              MetABar(j) => FloatLess(ret.scanned[j].combined,
                                                      ret.scanned[k].combined))
                          => ReturnsRecordAt(k)
           /\ (~config.flexible_artist_matching /\ ~ret.best_match.none)
                 => FloatLeq(FloatOf(config.similarity_threshold), ret.best_score)

\* C13 witness: the record returned met the flexible bar only, with a
\* combined score below similarity_threshold, after another record that met
\* a bar with a lower score.
C13_Witness ==
    /\ op.name = "_find_rym_release"
    /\ config.flexible_artist_matching
    /\ ~ret.best_match.none
    /\ ret.best_at > 1
    /\ MetFlexibleBar(ret.best_at)
    /\ FloatLess(ret.best_score, FloatOf(config.similarity_threshold))
    /\ \E j \in Scored \ {ret.best_at} :
          MetABar(j) /\ FloatLess(ret.scanned[j].combined, ret.best_score)

\* the catalogs that hold the records of the loaded one in another order
Reordered ==
    { <<MappingOf([i \in DOMAIN ScannedReleases |-> ScannedReleases[f[i]]])>> :
          f \in { g \in [DOMAIN ScannedReleases -> DOMAIN ScannedReleases] :
                     \A i, j \in DOMAIN ScannedReleases : g[i] = g[j] => i = j } }

\* two different records that met a bar share the best score
TieAtTheTop ==
    \E j, k \in Scored :
        /\ ScannedReleases[j] # ScannedReleases[k]
        /\ MetABar(j) /\ MetABar(k)
        /\ ret.scanned[j].combined = ret.best_score
        /\ ret.scanned[k].combined = ret.best_score

\* C14: of the records that met a bar with the same, maximal combined score
\* the one the scan meets first is returned; the same records in another
\* order give another result only when two of them tie at the top.
C14_FirstOfEqualsWins ==
    (op.name = "_find_rym_release" /\ ~ret.raised /\ ~ret.best_match.none)
        => /\ \A k \in Scored :
                 (MetABar(k) /\ ret.scanned[k].combined = ret.best_score)
                    => ret.best_at <= k
           /\ \A c \in Reordered :
                 _find_rym_release(config, RymOf(c), op.artist,
                                   op.album_title).best_match # ret.best_match
                    => TieAtTheTop

\* C14 witness: two different records tie at the top; the first is returned
\* and the other order of the catalog returns the other.
C14_Witness ==
    /\ op.name = "_find_rym_release"
    /\ ~ret.best_match.none
    /\ \E k \in Scored :
          /\ k > ret.best_at
          /\ ScannedReleases[k] # ret.best_match.release_data
          /\ MetABar(k)
          /\ ret.scanned[k].combined = ret.best_score
    /\ \E c \in Reordered :
          _find_rym_release(config, RymOf(c), op.artist,
                            op.album_title).best_match # ret.best_match

----------------------------------------------------------------------------
(* Claims about the catalog, checked under SpecCatalog *)

\* a catalog that is not a two-level mapping of records with names that
\* are strings
Malformed(catalog) ==
    \E i \in DOMAIN catalog :
        \/ ~catalog[i].isdict
        \/ \E j \in DOMAIN catalog[i].values :
              \/ ~IsRecord(catalog[i].values[j])
              \/ ~IsStr(GetText(catalog[i].values[j], "artistName"))
              \/ ~IsStr(GetText(catalog[i].values[j], "releaseTitle"))

\* C15 (as claimed): when the fetch failed, or delivered a document that is
\* not a two-level mapping of records with string names, the catalog is
\* empty and _find_rym_release returns None without raising.  The cache
\* files of this specification hold well-formed catalogs, so a malformed
\* catalog in memory was fetched.
C15_BadFetchGivesNoMatch ==
    (/\ op.name = "_find_rym_release"
     /\ op.via = "failed" \/ Malformed(rym_data.data))
        => /\ ~ret.raised
           /\ ret.best_match.none
           /\ rym_data.data = <<>>

\* C18: once self.rym_data is set no step replaces it, and a call of
\* _find_rym_release finds the catalog in memory: it reads no cache and
\* fetches nothing, whatever the clock, the cache file and the remote
\* document have become.
C18_CatalogLoadedOnce ==
    [][ ~rym_data.none
           => /\ rym_data' = rym_data
              /\ (op.name = "none" /\ op'.name = "_find_rym_release")
                    => (op'.via = "memory" /\ cacheFile' = cacheFile) ]_vars

\* C18 witness: a call served from memory although the cache document the
\* catalog came from has expired and the remote document holds another
\* catalog.
C18_Witness ==
    /\ op.name = "_find_rym_release"
    /\ op.via = "memory"
    /\ config.firebase_url # ""
    /\ cacheFile.exists /\ cacheFile.valid
    /\ "timestamp" \in DOMAIN cacheFile.doc
    /\ "data" \in DOMAIN cacheFile.doc
    /\ cacheFile.doc.data.isdict
    /\ rym_data.data = cacheFile.doc.data.values
    /\ now - cacheFile.doc.timestamp >= config.cache_duration
    /\ remote.ok /\ remote.isdict
    /\ remote.data # rym_data.data

\* the step that loads the catalog for the first time
FirstLoad ==
    /\ rym_data.none
    /\ op.name = "none"
    /\ op'.name = "_find_rym_release"

\* C19 (as claimed): the first load uses the cached catalog exactly when
\* the cache document exists, is readable and has a timestamp with
\* now - timestamp < cache_duration; in every other case the catalog is
\* fetched and, when the fetch succeeds, the cache holds the fetched catalog
\* with the current time as timestamp.
C19_CacheExactlyWhenFresh ==
    [][ FirstLoad
           => /\ op'.via = "cache"
                    <=> /\ cacheFile.exists
                        /\ cacheFile.valid
                        /\ "timestamp" \in DOMAIN cacheFile.doc
                        /\ now - cacheFile.doc.timestamp < config.cache_duration
              /\ op'.via = "cache"
                    => /\ rym_data' = RymOf(cacheFile.doc.data.values)
                       /\ cacheFile' = cacheFile
              /\ op'.via # "cache"
                    => /\ op'.via \in {"fetched", "failed"}
                       /\ (remote.ok /\ remote.isdict)
                             => /\ op'.via = "fetched"
                                /\ rym_data' = RymOf(remote.data)
                                /\ cacheFile'.exists
                                /\ cacheFile'.valid
                                /\ cacheFile'.doc = [timestamp |-> now,
                                                     data |-> MappingOf(remote.data)] ]_vars

\* the age of the cache document, a missing timestamp counting as 0
CacheAge ==
    now - (IF "timestamp" \in DOMAIN cacheFile.doc THEN cacheFile.doc.timestamp ELSE 0)

\* C19 (amended): the cached catalog is used exactly when the cache
\* document exists, parses, holds a mapping under 'data' and is younger than
\* cache_duration, a missing timestamp counting as 0.  Otherwise, without a
\* firebase_url nothing is fetched and the catalog is empty; with one, the
\* catalog is the fetched mapping and the cache is rewritten with the
\* current time if the file can be written, or the catalog is empty and the
\* cache untouched if the fetch fails.
C19_CacheWhenYoungAndWellFormed ==
    [][ FirstLoad
           => /\ op'.via = "cache"
                    <=> /\ cacheFile.exists
                        /\ cacheFile.valid
                        /\ "data" \in DOMAIN cacheFile.doc
                        /\ cacheFile.doc.data.isdict
                        /\ CacheAge < config.cache_duration
              /\ op'.via = "cache"
                    => /\ rym_data' = RymOf(cacheFile.doc.data.values)
                       /\ cacheFile' = cacheFile
              /\ (op'.via # "cache" /\ config.firebase_url = "")
                    => /\ op'.via = "no url"
                       /\ rym_data' = RymOf(<<>>)
                       /\ cacheFile' = cacheFile
              /\ (op'.via # "cache" /\ config.firebase_url # "")
                    => IF remote.ok /\ remote.isdict
                       THEN /\ op'.via = "fetched"
                            /\ rym_data' = RymOf(remote.data)
                            /\ IF cacheFile.writable
                               THEN /\ cacheFile'.exists
                                    /\ cacheFile'.valid
                                    /\ cacheFile'.doc = [timestamp |-> now,
                                                         data |-> MappingOf(remote.data)]
                               ELSE cacheFile' = cacheFile
                       ELSE /\ op'.via = "failed"
                            /\ rym_data' = RymOf(<<>>)
                            /\ cacheFile' = cacheFile ]_vars

\* C19 witness: the first load took the catalog of a cache document at the
\* last moment of its validity, one tick before now - timestamp reaches
\* cache_duration.
C19_Witness ==
    /\ op.name = "_find_rym_release"
    /\ op.via = "cache"
    /\ "timestamp" \in DOMAIN cacheFile.doc
    /\ now - cacheFile.doc.timestamp = config.cache_duration - 1
    /\ rym_data = RymOf(cacheFile.doc.data.values)
    /\ remote.ok /\ remote.isdict /\ remote.data # rym_data.data

\* a step that calls _load_rym_data
LoadStep ==
    /\ op.name = "none"
    /\ op'.name \in {"_find_rym_release", "on_import_task_created"}
    /\ op'.via # "not asked"

\* the load fails: no catalog in memory, no usable cache, and no URL, a
\* fetch that raises, or a response that is not a mapping
FailedLoad ==
    /\ rym_data.none
    /\ ~CacheUsable(config, cacheFile, now)
    /\ \/ config.firebase_url = ""
       \/ ~remote.ok
       \/ ~remote.isdict

\* C27: a failed load leaves the cache document as it was, with the empty
\* catalog in memory only; and whenever a call writes the cache document,
\* a URL is configured, the fetch delivered a mapping, and the document
\* holds that mapping with the current time.
C27_FailedLoadKeepsCache ==
    [][ /\ (LoadStep /\ FailedLoad)
              => /\ cacheFile' = cacheFile
                 /\ rym_data' = RymOf(<<>>)
                 /\ op'.via \in {"failed", "no url"}
        /\ (LoadStep /\ cacheFile' # cacheFile)
              => /\ config.firebase_url # ""
                 /\ remote.ok /\ remote.isdict
                 /\ cacheFile' = FileOf([timestamp |-> now,
                                         data |-> MappingOf(remote.data)]) ]_vars

\* C27 witness: the fetch failed with a URL configured, the catalog in
\* memory is empty, and the expired cache document of an earlier fetch,
\* with its records, is still on disk.
C27_Witness ==
    /\ op.name \in {"_find_rym_release", "on_import_task_created"}
    /\ op.via = "failed"
    /\ config.firebase_url # ""
    /\ rym_data = RymOf(<<>>)
    /\ cacheFile.exists /\ cacheFile.valid /\ cacheFile.writable
    /\ "timestamp" \in DOMAIN cacheFile.doc
    /\ now - cacheFile.doc.timestamp >= config.cache_duration
    /\ "data" \in DOMAIN cacheFile.doc
    /\ cacheFile.doc.data = MappingOf(Cached)

\* C21 (as claimed): on_import_task_created never raises; it returns the
\* empty task list exactly when require_rym_match is set, the task is an
\* album task with items and no record of the catalog matches the names of
\* its first item, and the list of the original task alone in every other
\* case.
C21_StopsExactlyOnMissingMatch ==
    op.name = "on_import_task_created"
        => /\ ~ret.raised
           /\ ret.tasks = <<>>
                 <=> /\ config.require_rym_match
                     /\ op.task.is_album
                     /\ op.task.items # <<>>
                     /\ op.found.best_match.none
           /\ ret.tasks # <<>> => ret.tasks = <<op.task>>

----------------------------------------------------------------------------
(* Claims about the rym command, checked under SpecBatch *)

\* C16 (as claimed): no exception leaves the loop of the rym command: the
\* command never ends on an exception, and when it ends every album of the
\* batch has been processed and the summary is printed.
C16_BatchSurvivesFailure ==
    op.name = "rym_command"
        => /\ op.pc # "raised"
           /\ op.pc = "done"
                 => /\ ret.total_processed = Len(library)
                    /\ ret.total_processed
                          = ret.total_updated + ret.total_skipped + ret.total_missing

\* the album of position j is as the command found it
Untouched(j) == library[j] = op.albums[j]

\* the file of an item is what one of the two writes leaves for its tags
FileWritten(item, before) ==
    \/ item.file = try_write([item EXCEPT !.writable = TRUE]).file
    \/ item.file = _write_item_with_flac_arrays(
                       [item EXCEPT !.file = before.file, !.writable = TRUE],
                       FALSE).file

\* the row of the album of position j holds its fields, and each of its
\* items holds the tags of the album in its fields and in its row
Stored(j) ==
    /\ library[j].db = library[j].tags
    /\ \A i \in DOMAIN library[j].items :
          /\ library[j].items[i].tags
                = _apply_rym_tags_to_item(op.albums[j].items[i].tags, library[j].tags)
          /\ library[j].items[i].db = library[j].items[i].tags

\* the album of position j is persisted: it is stored, and the file of
\* each of its items holds the tags of the album
FullyPersisted(j) ==
    /\ Stored(j)
    /\ \A i \in DOMAIN library[j].items :
          FileWritten(library[j].items[i], op.albums[j].items[i])

\* the album of position j is stored, and the file of each of its items
\* holds the tags of the album or, when it cannot be written, is as the
\* command found it
PersistedButFailedWrites(j) ==
    /\ Stored(j)
    /\ \A i \in DOMAIN library[j].items :
          IF library[j].items[i].writable
          THEN FileWritten(library[j].items[i], op.albums[j].items[i])
          ELSE library[j].items[i].file = op.albums[j].items[i].file

\* C17 (as claimed): while the rym command runs, every album before the
\* current one is untouched or fully persisted, and no album after the
\* current one has been touched: no album is modified while an earlier one
\* is persisted in part only.
C17_AlbumPersistedBeforeNext ==
    op.name = "rym_command"
        => /\ \A m \in DOMAIN library :
                 m < op.k => Untouched(m) \/ FullyPersisted(m)
           /\ \A j \in DOMAIN library : j > op.k => Untouched(j)
           /\ \A j \in DOMAIN library :
                 ~Untouched(j)
                    => \A m \in 1..(j - 1) : Untouched(m) \/ FullyPersisted(m)

\* C17 (corrected): while the rym command runs, every album before the
\* current one is untouched, or it is stored with all its items and every
\* file of it has been written or has failed to be written, try_write
\* reporting the error and leaving the file as it was; and no album after
\* the current one has been touched.  An album is never modified before
\* the stores and the write attempts of the earlier ones are over.
C17_AlbumAttemptedBeforeNext ==
    op.name = "rym_command"
        => LET settled == [m \in DOMAIN library |->
                              Untouched(m) \/ PersistedButFailedWrites(m)]
           IN  /\ \A m \in DOMAIN library : m < op.k => settled[m]
               /\ \A j \in DOMAIN library : j > op.k => Untouched(j)
               /\ \A j \in DOMAIN library :
                     ~Untouched(j) => \A m \in 1..(j - 1) : settled[m]

\* C17 witness: the second album has been modified but not stored yet,
\* after the first one, with its two items, was stored; the file of its
\* first item was written and that of its second item could not be.
C17_Witness ==
    /\ op.name = "rym_command"
    /\ op.k = 2
    /\ op.pc = "store"
    /\ ~Untouched(2)
    /\ library[2].db # library[2].tags
    /\ ~Untouched(1)
    /\ Len(library[1].items) = 2
    /\ PersistedButFailedWrites(1)
    /\ ~library[1].items[2].writable
    /\ library[1].items[1].file # op.albums[1].items[1].file
    /\ library[1].items[2].file = op.albums[1].items[2].file
    /\ ~FullyPersisted(1)

----------------------------------------------------------------------------
(* Claims about the life of the hierarchy, checked under SpecLazy *)

\* C20: self.genre_hierarchy is set by a call of _get_parent_genres with
\* use_hierarchy on and genres to group, and by nothing else; every such
\* call leaves it set; and once it is set no step changes genre_to_parents,
\* all_genres or excluded_genres, whatever the two files have become.
C20_HierarchyBuiltOnceLazily ==
    [][ /\ genre_hierarchy.present => genre_hierarchy' = genre_hierarchy
        /\ (~genre_hierarchy.present /\ genre_hierarchy'.present)
              => /\ op'.name = "_get_parent_genres"
                 /\ config.use_hierarchy
                 /\ op'.genres # <<>>
                 /\ genre_hierarchy' = RYMGenreHierarchy(taxFile, exclFile)
        /\ (/\ op.name = "none"
            /\ op'.name = "_get_parent_genres"
            /\ config.use_hierarchy
            /\ op'.genres # <<>>)
              => genre_hierarchy'.present ]_vars

\* C20 witness: a grouping was computed on the hierarchy in memory, which
\* is not the one the files hold now.
C20_Witness ==
    /\ op.name = "_get_parent_genres"
    /\ op.genres # <<>>
    /\ ret # <<>>
    /\ genre_hierarchy.present
    /\ genre_hierarchy.genre_to_parents # RYMGenreHierarchy(taxFile, exclFile).genre_to_parents
    /\ genre_hierarchy.excluded_genres # RYMGenreHierarchy(taxFile, exclFile).excluded_genres

----------------------------------------------------------------------------
(* The constructor of RYMGenreHierarchy step by step, and instances built  *)
(* one after the other from the same two files                             *)

\* __init__ up to the call of load_excluded_genres: a new instance with an
\* empty index and an empty exclusion set.  op.earlier keeps what the
\* instance built before, if any, had excluded.
ConstructBegin ==
    /\ op.name = "none"
    /\ op' = [name |-> "__init__", pc |-> "load_excluded_genres",
              earlier |-> [present |-> genre_hierarchy.present,
                           excluded_genres |-> genre_hierarchy.excluded_genres]]
    /\ genre_hierarchy' = [present |-> TRUE,
                           genre_to_parents |-> EmptyIndex.genre_to_parents,
                           all_genres |-> EmptyIndex.all_genres,
                           excluded_genres |-> {}]
    /\ ret' = <<>>
    /\ UNCHANGED <<disk, remote, now, config, rym_data, logged_albums, library>>

\* self.load_excluded_genres()
ConstructLoadExcludedGenres ==
    /\ op.name = "__init__"
    /\ op.pc = "load_excluded_genres"
    /\ exclFile' = ExclFileAfterLoad(exclFile)
    /\ genre_hierarchy' = [genre_hierarchy EXCEPT
                              !.excluded_genres = load_excluded_genres(exclFile)]
    /\ op' = [op EXCEPT !.pc = "load_hierarchy"]
    /\ UNCHANGED <<taxFile, cacheFile, remote, now, config, rym_data,
                   logged_albums, library, ret>>

\* self.load_hierarchy()
ConstructLoadHierarchy ==
    /\ op.name = "__init__"
    /\ op.pc = "load_hierarchy"
    /\ \E idx \in { load_hierarchy(taxFile) } :
          genre_hierarchy' = [genre_hierarchy EXCEPT
                                 !.genre_to_parents = idx.genre_to_parents,
                                 !.all_genres = idx.all_genres]
    /\ op' = [op EXCEPT !.pc = "done"]
    /\ UNCHANGED <<disk, remote, now, config, rym_data, logged_albums,
                   library, ret>>

NextConstruct ==
    \/ ConstructBegin
    \/ ConstructLoadExcludedGenres
    \/ ConstructLoadHierarchy
    \/ Return

SpecConstruct == InitHier /\ [][NextConstruct]_vars

----------------------------------------------------------------------------
(* Claims about the constructor, checked under SpecConstruct *)

\* the step of the constructor that runs load_excluded_genres
LoadsExclusions ==
    /\ op.name = "__init__"
    /\ op.pc = "load_excluded_genres"
    /\ op'.pc = "load_hierarchy"

\* the taxonomy has not been parsed: the index is as __init__ made it
NotParsedYet(h) ==
    /\ h.genre_to_parents = EmptyIndex.genre_to_parents
    /\ h.all_genres = EmptyIndex.all_genres

\* C22 (as claimed): when the exclusion document does not exist, the default
\* document is written before the taxonomy is parsed and the exclusion set
\* of the instance is {"Regional Music"}; a later construction from the same
\* files excludes what the earlier one excluded and does not rewrite the
\* document.
C22_DefaultDocumentWritten ==
    [][ LoadsExclusions
           => /\ ~exclFile.exists
                    => /\ exclFile' = FileOf(default_excluded)
                       /\ genre_hierarchy'.excluded_genres = {"Regional Music"}
                       /\ NotParsedYet(genre_hierarchy')
              /\ (op.earlier.present /\ exclFile.exists)
                    => /\ exclFile' = exclFile
                       /\ genre_hierarchy'.excluded_genres
                             = op.earlier.excluded_genres ]_vars

\* C22 (corrected): that holds when the document can be created; when it
\* does not exist and cannot be created, nothing is written and the
\* exclusion set is empty.  A document that exists is never rewritten, and
\* every construction after the first leaves the document as it is and
\* excludes what the one before excluded.
C22_DefaultDocumentWrittenIfPossible ==
    [][ LoadsExclusions
           => /\ (~exclFile.exists /\ exclFile.writable)
                    => /\ exclFile' = FileOf(default_excluded)
                       /\ genre_hierarchy'.excluded_genres = {"Regional Music"}
                       /\ NotParsedYet(genre_hierarchy')
              /\ (~exclFile.exists /\ ~exclFile.writable)
                    => /\ exclFile' = exclFile
                       /\ genre_hierarchy'.excluded_genres = {}
                       /\ NotParsedYet(genre_hierarchy')
              /\ exclFile.exists => exclFile' = exclFile
              /\ op.earlier.present
                    => /\ exclFile' = exclFile
                       /\ genre_hierarchy'.excluded_genres
                             = op.earlier.excluded_genres ]_vars

\* C22 witness: a second construction has read the document that the first
\* one created (no exclusion file of the initial states holds the default
\* document), next to a taxonomy with genres, and is about to parse it.
C22_Witness ==
    /\ op.name = "__init__"
    /\ op.pc = "load_hierarchy"
    /\ op.earlier.present
    /\ op.earlier.excluded_genres = {"Regional Music"}
    /\ exclFile = FileOf(default_excluded)
    /\ genre_hierarchy.excluded_genres = {"Regional Music"}
    /\ NotParsedYet(genre_hierarchy)
    /\ load_hierarchy(taxFile).all_genres # {}

----------------------------------------------------------------------------
(* The functions on text: similarity and the two variation lists, applied  *)
(* to every short string over a few characters                             *)

MaxSimLen == 3
MaxNameLen == 4

\* a, b, c and A
SimChars == {97, 98, 99, 65}

\* a, the space, the ideographic space, the two pairs of delimiters
ArtistChars == {97, 32, IdeographicSpace, 91, 93, 40, 41}

\* a, the space, the parentheses, a bracket pair, the colon and the digit 1
AlbumChars == {97, 32, 40, 41, 91, 93, 58, 49}

InitText ==
    /\ taxFile = AbsentFile
    /\ exclFile = AbsentFile
    /\ cacheFile = AbsentFile
    /\ remote = NoRemote
    /\ now = 0
    /\ config = DefaultConfig
    /\ rym_data = RymNone
    /\ genre_hierarchy = None
    /\ logged_albums = {}
    /\ library = <<>>
    /\ op = Idle
    /\ ret = <<>>

CallSimilarity ==
    /\ op.name = "none"
    /\ \E a \in SeqsUpTo(SimChars, MaxSimLen), b \in SeqsUpTo(SimChars, MaxSimLen) :
          /\ op' = [name |-> "similarity", a |-> a, b |-> b]
          /\ ret' = similarity(a, b)
    /\ UNCHANGED <<disk, remote, now, plugin, library>>

\* n times the character c
Repeated(c, n) == [i \in 1..n |-> c]

\* texts of the length from which SequenceMatcher purges popular
\* characters: 'c' + 'b' * 200, 'b' * 200, and 'aaa' + 'cccc' + 'b' * 193,
\* where a occurs len // 100 + 1 times and c once more
LongTexts ==
    { <<99>> \o Repeated(98, AutojunkLength),
      Repeated(98, AutojunkLength),
      Repeated(97, 3) \o Repeated(99, 4) \o Repeated(98, AutojunkLength - 7) }

\* a text just below that length: 'c' + 'b' * 198
NearlyLongText == <<99>> \o Repeated(98, AutojunkLength - 2)

\* short texts to compare with the long ones: '', 'a', 'b', 'c', 'ab',
\* 'ba', 'AB', 'cba' and 'bbbb'
ShortTexts ==
    { <<>>, <<97>>, <<98>>, <<99>>, <<97, 98>>, <<98, 97>>, <<65, 66>>,
      <<99, 98, 97>>, Repeated(98, 4) }

\* similarity of a short text and a long or nearly long one, in either
\* order, and of each ordered pair of long texts
CallSimilarityLong ==
    /\ op.name = "none"
    /\ \E a \in ShortTexts \cup LongTexts,
          b \in LongTexts \cup {NearlyLongText}, swapped \in BOOLEAN :
          /\ a \in ShortTexts \/ (b \in LongTexts /\ ~swapped)
          /\ op' = [name |-> "similarity",
                    a |-> IF swapped THEN b ELSE a,
                    b |-> IF swapped THEN a ELSE b]
          /\ ret' = IF swapped THEN similarity(b, a) ELSE similarity(a, b)
    /\ UNCHANGED <<disk, remote, now, plugin, library>>

CallGetArtistVariations ==
    /\ op.name = "none"
    /\ \E artist_name \in SeqsUpTo(ArtistChars, MaxNameLen) :
          /\ op' = [name |-> "_get_artist_variations", text |-> artist_name,
                    variations |-> ArtistVariationsRaw(artist_name)]
          /\ ret' = _get_artist_variations(artist_name)
    /\ UNCHANGED <<disk, remote, now, plugin, library>>

CallGetAlbumVariations ==
    /\ op.name = "none"
    /\ \E album_title \in SeqsUpTo(AlbumChars, MaxNameLen) :
          /\ op' = [name |-> "_get_album_variations", text |-> album_title,
                    variations |-> AlbumVariationsRaw(album_title)]
          /\ ret' = _get_album_variations(album_title)
    /\ UNCHANGED <<disk, remote, now, plugin, library>>

NextText ==
    \/ CallSimilarity
    \/ CallSimilarityLong
    \/ CallGetArtistVariations
    \/ CallGetAlbumVariations
    \/ Return

SpecText == InitText /\ [][NextText]_vars

----------------------------------------------------------------------------
(* Claims about the functions on text, checked under SpecText *)

\* C23 (as claimed): similarity(a, b) = similarity(b, a).
C23_SimilaritySymmetric ==
    op.name = "similarity" => ScoreEq(ret, similarity(op.b, op.a))

\* the form of a string that similarity compares
Compared(s) == NFKC(LowerStr(s))

\* the two compared forms have a character in common
ShareACharacter(a, b) ==
    Range(Compared(a)) \cap Range(Compared(b)) # {}

\* C23 (corrected): similarity lies between 0 and 1.  It is 1 exactly when
\* the lower-cased NFKC forms of the two strings are equal, hence in one
\* order exactly when in the other.  It is 0 whenever these forms share no
\* character (and are not both empty); when the form of the second string
\* has fewer than 200 characters it is 0 only then, so that for two forms of
\* fewer than 200 characters a value of 0 does not depend on the order
\* either.  Any other value may, and so may a value of 0 against a longer
\* second string, whose frequent characters do not start a block.
C23_SimilarityEndsSymmetric ==
    op.name = "similarity"
        => LET swapped == similarity(op.b, op.a)
               share == ShareACharacter(op.a, op.b)
           IN  /\ ScoreLeq(Zero, ret) /\ ScoreLeq(ret, <<1, 1>>)
               /\ ScoreEq(ret, <<1, 1>>) <=> Compared(op.a) = Compared(op.b)
               /\ ScoreEq(ret, <<1, 1>>) <=> ScoreEq(swapped, <<1, 1>>)
               /\ ~share /\ Len(op.a) + Len(op.b) > 0
                     => ScoreEq(ret, Zero) /\ ScoreEq(swapped, Zero)
               /\ ScoreEq(ret, Zero) /\ Len(Compared(op.b)) < AutojunkLength
                     => ~share
               /\ (/\ Len(Compared(op.a)) < AutojunkLength
                   /\ Len(Compared(op.b)) < AutojunkLength)
                     => (ScoreEq(ret, Zero) <=> ScoreEq(swapped, Zero))

\* C23 witness: 'ab' against 'c' + 'b' * 200.  The b of the long text is
\* frequent and starts no block, so the similarity is 0 although the texts
\* share it; in the other order it is 2/203.
C23_Witness ==
    /\ op.name = "similarity"
    /\ op.a = <<97, 98>>
    /\ op.b = <<99>> \o Repeated(98, AutojunkLength)
    /\ ShareACharacter(op.a, op.b)
    /\ ScoreEq(ret, Zero)
    /\ ScoreEq(similarity(op.b, op.a), <<2, 203>>)

\* the position of the first candidate that gives the entry x once stripped
FirstGenerated(variations, x) ==
    CHOOSE k \in DOMAIN variations :
        /\ Strip(variations[k]) = x
        /\ \A j \in 1..(k - 1) : Strip(variations[j]) # x

\* C24: the list returned by _get_artist_variations and _get_album_variations
\* has no duplicate entry, no empty entry and no entry that begins or ends
\* with whitespace; its entries are the stripped candidates that are not
\* empty, in the order in which they were first generated, so that the
\* stripped name itself, when it is not empty, comes first.
C24_VariationsCleanAndOrdered ==
    op.name \in {"_get_artist_variations", "_get_album_variations"}
        => /\ \A i, j \in DOMAIN ret : i # j => ret[i] # ret[j]
           /\ \A i \in DOMAIN ret :
                 /\ ret[i] # <<>>
                 /\ ~IsSpace(ret[i][1])
                 /\ ~IsSpace(ret[i][Len(ret[i])])
           /\ Range(ret) = { Strip(op.variations[k]) : k \in DOMAIN op.variations }
                               \ { <<>> }
           /\ \A i, j \in DOMAIN ret :
                 i < j => FirstGenerated(op.variations, ret[i])
                             < FirstGenerated(op.variations, ret[j])
           /\ op.variations[1] = op.text
           /\ Strip(op.text) # <<>> => ret[1] = Strip(op.text)

\* C24 witness: a name with whitespace around it, of which two candidates
\* are equal once stripped and a third one is another entry.
C24_Witness ==
    /\ op.name \in {"_get_artist_variations", "_get_album_variations"}
    /\ Strip(op.text) # op.text
    /\ Len(ret) >= 2
    /\ Len(ret) < Cardinality({ k \in DOMAIN op.variations :
                                   Strip(op.variations[k]) # <<>> })

----------------------------------------------------------------------------
(* More claims about the rym command, checked under SpecBatch *)

\* the step of the loop that looks at an album which the run before, made
\* without --force on the same catalog and configuration, has updated
LooksAtUpdatedAlbum ==
    /\ op.name = "rym_command"
    /\ op.pc = "album"
    /\ ~op.force
    /\ op.k <= Len(library)
    /\ op.k \in op.earlier

\* C26 (as claimed): a run without --force skips, as already up-to-date,
\* every album that the run before has updated, and writes nothing for it.
C26_SecondRunSkips ==
    [][ LooksAtUpdatedAlbum
           => /\ op'.total_skipped = op.total_skipped + 1
              /\ op'.k = op.k + 1
              /\ library' = library ]_vars

\* C28 (as claimed): when a run of the command completes, total_processed
\* is the sum of the three other counters and the number of names appended
\* to the missing-matches log is total_missing.
C28_CountersAndLogAgree ==
    (op.name = "rym_command" /\ op.pc = "done")
        => /\ ret.total_processed
                 = ret.total_updated + ret.total_skipped + ret.total_missing
           /\ Len(ret.logged) = ret.total_missing

\* C28 (corrected): when a run of the command completes, total_processed is
\* the number of albums and the sum of the three other counters, and
\* total_missing is the number of names collected in missing_matches; these
\* names are appended to the log, in their order, when log_missing_matches
\* is on and the file could be opened; otherwise nothing is appended.
C28_CountersAgreeLogWhenEnabled ==
    (op.name = "rym_command" /\ op.pc = "done")
        => /\ ret.total_processed = Len(library)
           /\ ret.total_processed
                 = ret.total_updated + ret.total_skipped + ret.total_missing
           /\ ret.total_missing = Len(op.missing_matches)
           /\ ret.total_updated = Cardinality(op.updated)
           /\ IF config.log_missing_matches /\ op.log = "written"
              THEN ret.logged = op.missing_matches
              ELSE ret.logged = <<>>
           /\ (config.log_missing_matches /\ op.log # "open failed")
                 => Len(ret.logged) = ret.total_missing

\* C28 witness: a run completed with one album updated and one missing,
\* whose name was appended to the log.
C28_Witness ==
    /\ op.name = "rym_command"
    /\ op.pc = "done"
    /\ ret.total_processed = 2
    /\ ret.total_updated = 1
    /\ ret.total_missing = 1
    /\ config.log_missing_matches
    /\ op.log = "written"
    /\ ret.logged = <<<<Txt_x, Txt_x>>>>

=============================================================================
